------------------------------ MODULE Spec2Model ------------------------------
(***************************************************************************)
(* A model of docstring-format-checker: the DocstringChecker of            *)
(* docstring_format_checker.core, driven through check_file and            *)
(* check_directory over a small file system of Python sources.             *)
(*                                                                         *)
(* Text is modelled as real strings: a docstring is the sequence of its    *)
(* lines (the text ast.get_docstring returns, split at line ends), a path  *)
(* is a string, a violation message is the string the checker builds.      *)
(* Header matching, case folding, globbing and joining are computed on     *)
(* the characters, the way the regular expressions and str methods of the  *)
(* checker do.                                                             *)
(***************************************************************************)
EXTENDS Integers, Sequences, FiniteSets, TLC

VARIABLES config, fs, outcome

vars == <<config, fs, outcome>>

-----------------------------------------------------------------------------
(* str methods and the character classes of the regular expressions.       *)

UpperLetters ==
    {"A","B","C","D","E","F","G","H","I","J","K","L","M",
     "N","O","P","Q","R","S","T","U","V","W","X","Y","Z"}

LowerLetters ==
    {"a","b","c","d","e","f","g","h","i","j","k","l","m",
     "n","o","p","q","r","s","t","u","v","w","x","y","z"}

Digits == {"0","1","2","3","4","5","6","7","8","9"}

(* str.lower of one character *)
LowerChar(c) ==
    IF c \notin UpperLetters THEN c
    ELSE CASE c = "A" -> "a" [] c = "B" -> "b" [] c = "C" -> "c" [] c = "D" -> "d"
              [] c = "E" -> "e" [] c = "F" -> "f" [] c = "G" -> "g" [] c = "H" -> "h"
              [] c = "I" -> "i" [] c = "J" -> "j" [] c = "K" -> "k" [] c = "L" -> "l"
              [] c = "M" -> "m" [] c = "N" -> "n" [] c = "O" -> "o" [] c = "P" -> "p"
              [] c = "Q" -> "q" [] c = "R" -> "r" [] c = "S" -> "s" [] c = "T" -> "t"
              [] c = "U" -> "u" [] c = "V" -> "v" [] c = "W" -> "w" [] c = "X" -> "x"
              [] c = "Y" -> "y" [] c = "Z" -> "z"

(* str.upper of one character *)
UpperChar(c) ==
    IF c \notin LowerLetters THEN c
    ELSE CASE c = "a" -> "A" [] c = "b" -> "B" [] c = "c" -> "C" [] c = "d" -> "D"
              [] c = "e" -> "E" [] c = "f" -> "F" [] c = "g" -> "G" [] c = "h" -> "H"
              [] c = "i" -> "I" [] c = "j" -> "J" [] c = "k" -> "K" [] c = "l" -> "L"
              [] c = "m" -> "M" [] c = "n" -> "N" [] c = "o" -> "O" [] c = "p" -> "P"
              [] c = "q" -> "Q" [] c = "r" -> "R" [] c = "s" -> "S" [] c = "t" -> "T"
              [] c = "u" -> "U" [] c = "v" -> "V" [] c = "w" -> "W" [] c = "x" -> "X"
              [] c = "y" -> "Y" [] c = "z" -> "Z"

IsAlpha(c) == c \in UpperLetters \/ c \in LowerLetters

(* the regular expression class \w *)
IsWordChar(c) == IsAlpha(c) \/ c \in Digits \/ c = "_"

(* the regular expression class \s, on one line of text *)
IsSpace(c) == c = " " \/ c = "\t"

RECURSIVE Lower(_)
(* str.lower *)
Lower(s) == IF s = "" THEN "" ELSE LowerChar(Head(s)) \o Lower(Tail(s))

RECURSIVE TitleFrom(_, _)
(* str.title, given whether the previous character was a letter *)
TitleFrom(s, prevAlpha) ==
    IF s = "" THEN ""
    ELSE LET c == Head(s)
         IN  (IF prevAlpha THEN LowerChar(c) ELSE UpperChar(c))
                 \o TitleFrom(Tail(s), IsAlpha(c))

(* str.title *)
Title(s) == TitleFrom(s, FALSE)

RECURSIVE FirstNonSpace(_, _)
(* the index of the first character from i on that is no blank, Len(s) + 1 when none *)
FirstNonSpace(s, i) ==
    IF i > Len(s) \/ ~IsSpace(SubSeq(s, i, i)) THEN i ELSE FirstNonSpace(s, i + 1)

(* str.lstrip *)
LStrip(s) == SubSeq(s, FirstNonSpace(s, 1), Len(s))

RECURSIVE LastNonSpace(_, _)
(* the index of the last character up to i that is no blank, 0 when none *)
LastNonSpace(s, i) ==
    IF i < 1 \/ ~IsSpace(SubSeq(s, i, i)) THEN i ELSE LastNonSpace(s, i - 1)

(* str.rstrip *)
RStrip(s) == SubSeq(s, 1, LastNonSpace(s, Len(s)))

(* str.strip *)
Strip(s) == RStrip(LStrip(s))

(* the number of leading blanks of a line: len(line) - len(line.lstrip()) *)
IndentOf(s) == FirstNonSpace(s, 1) - 1

(* str.startswith *)
StartsWith(s, p) == Len(p) <= Len(s) /\ SubSeq(s, 1, Len(p)) = p

(* str.endswith *)
EndsWith(s, p) == Len(p) <= Len(s) /\ SubSeq(s, Len(s) - Len(p) + 1, Len(s)) = p

(* str.__contains__: sub in s *)
Contains(s, sub) ==
    \E i \in 1..(Len(s) - Len(sub) + 1) : SubSeq(s, i, i + Len(sub) - 1) = sub

(* str.count of non-overlapping occurrences, for a `sub` that cannot overlap itself *)
CountOf(s, sub) ==
    Cardinality({i \in 1..(Len(s) - Len(sub) + 1) : SubSeq(s, i, i + Len(sub) - 1) = sub})

RECURSIVE Join(_, _)
(* sep.join(parts) *)
Join(parts, sep) ==
    IF parts = <<>> THEN ""
    ELSE IF Len(parts) = 1 THEN parts[1]
    ELSE parts[1] \o sep \o Join(Tail(parts), sep)

RECURSIVE WordEnd(_, _)
(* the index of the last character of the run of \w characters starting at i *)
WordEnd(s, i) ==
    IF i > Len(s) \/ ~IsWordChar(SubSeq(s, i, i)) THEN i - 1 ELSE WordEnd(s, i + 1)

(* the longest prefix of s made of \w characters *)
TakeWhileWord(s) == SubSeq(s, 1, WordEnd(s, 1))

(* s without its first n characters *)
Drop(s, n) == SubSeq(s, n + 1, Len(s))

RECURSIVE Before(_, _)
(* s.split(c)[0]: the text before the first occurrence of the character c *)
Before(s, c) ==
    IF s = "" \/ Head(s) = c THEN "" ELSE SubSeq(s, 1, 1) \o Before(Tail(s), c)

RECURSIVE Words(_)
(* str.split(): the words of a text that blanks separate *)
Words(s) ==
    LET Rest(t, word) == IF t = "" THEN << >> ELSE << word >> \o Words(Drop(t, Len(word)))
        First(t) == Rest(t, Before(t, " "))
    IN  First(LStrip(s))

-----------------------------------------------------------------------------
(* Configuration: SectionConfig, GlobalConfig and Config.                   *)

(* SectionConfig.admonition is False or a directive name *)
NoAdmonition == [is_str |-> FALSE, bool |-> FALSE, text |-> ""]

Admonition(directive) == [is_str |-> TRUE, bool |-> FALSE, text |-> directive]

SectionTypes == {"free_text", "list_name", "list_type", "list_name_and_type"}

SectionConfig(order, name, type, required, admonition, prefix) ==
    [order |-> order, name |-> name, type |-> type, required |-> required,
     admonition |-> admonition, prefix |-> prefix]

(* admonition=True, which no section may have *)
AdmonitionTrue == [is_str |-> FALSE, bool |-> TRUE, text |-> ""]

(* what the construction of a section gives: the exception raised, "" when
   the section is made *)
Constructed == [raised |-> "", message |-> ""]

Rejected(exception, message) == [raised |-> exception, message |-> message]

(* a faulty variant of __post_init__: a prefix is not demanded of a
   directive *)
PostInitWithoutPrefix(section) ==
    IF section.type \notin SectionTypes
    THEN Rejected("InvalidTypeValuesError", "Invalid section type: " \o section.type)
    ELSE IF section.admonition.is_str THEN Constructed
    ELSE IF section.admonition.bool
    THEN Rejected("ValueError", "admonition cannot be True")
    ELSE IF section.prefix # ""
    THEN Rejected("ValueError", "when admonition=False, prefix cannot be provided")
    ELSE Constructed

(* SectionConfig.__post_init__: the type of the section, then admonition
   and prefix together *)
__post_init__(section) ==
    IF section.type \notin SectionTypes
    THEN Rejected("InvalidTypeValuesError", "Invalid section type: " \o section.type)
    ELSE IF section.admonition.is_str
    THEN IF section.prefix = ""
         THEN Rejected("ValueError", "when admonition is a string, prefix must be provided")
         ELSE Constructed
    ELSE IF section.admonition.bool
    THEN Rejected("ValueError", "admonition cannot be True")
    ELSE IF section.prefix # ""
    THEN Rejected("ValueError", "when admonition=False, prefix cannot be provided")
    ELSE Constructed

GlobalConfig(allow_undefined_sections, require_docstrings, check_private, validate_param_types) ==
    [allow_undefined_sections |-> allow_undefined_sections,
     require_docstrings |-> require_docstrings,
     check_private |-> check_private,
     validate_param_types |-> validate_param_types]

Config(global_config, sections) ==
    [global_config |-> global_config, sections |-> sections]

(* the section lists the test suite builds its checkers from *)
SimpleSections ==
    << SectionConfig(1, "summary", "free_text", TRUE, NoAdmonition, ""),
       SectionConfig(2, "params", "list_name_and_type", TRUE, NoAdmonition, ""),
       SectionConfig(3, "returns", "list_name_and_type", FALSE, NoAdmonition, "") >>

DetailedSections ==
    << SectionConfig(1, "summary", "free_text", TRUE, Admonition("note"), "!!!"),
       SectionConfig(2, "params", "list_name_and_type", TRUE, NoAdmonition, ""),
       SectionConfig(3, "returns", "list_type", FALSE, NoAdmonition, ""),
       SectionConfig(4, "examples", "free_text", FALSE, Admonition("example"), "???+") >>

OrderedSections ==
    << SectionConfig(1, "summary", "free_text", TRUE, NoAdmonition, ""),
       SectionConfig(2, "params", "list_name_and_type", FALSE, NoAdmonition, ""),
       SectionConfig(3, "returns", "free_text", FALSE, NoAdmonition, "") >>

SummaryOnlySections ==
    << SectionConfig(1, "summary", "free_text", TRUE, NoAdmonition, "") >>

ReturnsYieldsSections ==
    << SectionConfig(1, "summary", "free_text", TRUE, NoAdmonition, ""),
       SectionConfig(2, "returns", "list_name_and_type", FALSE, NoAdmonition, ""),
       SectionConfig(3, "yields", "list_type", FALSE, NoAdmonition, "") >>

AllTypesSections ==
    << SectionConfig(1, "summary", "free_text", TRUE, NoAdmonition, ""),
       SectionConfig(2, "params", "list_name_and_type", TRUE, NoAdmonition, ""),
       SectionConfig(3, "returns", "list_name_and_type", TRUE, NoAdmonition, ""),
       SectionConfig(4, "raises", "list_type", TRUE, NoAdmonition, ""),
       SectionConfig(5, "yields", "list_type", FALSE, NoAdmonition, ""),
       SectionConfig(6, "notes", "list_name", FALSE, NoAdmonition, "") >>

ListNameSections ==
    << SectionConfig(1, "Parameters", "list_name", TRUE, NoAdmonition, "") >>

CustomFreeTextSections ==
    << SectionConfig(1, "unknown_custom_section", "free_text", TRUE, NoAdmonition, "") >>

AdmonitionSections ==
    << SectionConfig(1, "summary", "free_text", TRUE, Admonition("note"), "!!!"),
       SectionConfig(2, "details", "free_text", FALSE, Admonition("info"), "???+") >>

ColonSections ==
    << SectionConfig(1, "summary", "free_text", TRUE, NoAdmonition, ""),
       SectionConfig(2, "params", "list_name_and_type", FALSE, NoAdmonition, ""),
       SectionConfig(3, "returns", "list_type", FALSE, NoAdmonition, "") >>

SectionLists ==
    {SimpleSections, DetailedSections, OrderedSections, SummaryOnlySections,
     ReturnsYieldsSections, AllTypesSections, ListNameSections,
     CustomFreeTextSections, AdmonitionSections, ColonSections}

(* the checkers of the header-level tests leave validate_param_types off *)
GlobalConfigs ==
    {GlobalConfig(a, r, p, FALSE) : a \in BOOLEAN, r \in BOOLEAN, p \in BOOLEAN}

Configs == {Config(g, s) : g \in GlobalConfigs, s \in SectionLists}

(* the section lists of the tests of the list entries and of the parameter
   types: one list section each *)
ParametersSections ==
    << SectionConfig(1, "summary", "free_text", TRUE, NoAdmonition, ""),
       SectionConfig(2, "Parameters", "list_name_and_type", TRUE, NoAdmonition, "") >>

ArgsSections ==
    << SectionConfig(1, "summary", "free_text", TRUE, NoAdmonition, ""),
       SectionConfig(2, "Args", "list_name_and_type", TRUE, NoAdmonition, "") >>

RaisesSections ==
    << SectionConfig(1, "summary", "free_text", TRUE, NoAdmonition, ""),
       SectionConfig(2, "raises", "list_type", FALSE, NoAdmonition, "") >>

ParamsSections ==
    << SectionConfig(1, "Params", "list_name_and_type", TRUE, NoAdmonition, "") >>

ParamsReturnsSections ==
    << SectionConfig(1, "Params", "list_name_and_type", FALSE, NoAdmonition, ""),
       SectionConfig(2, "Returns", "list_type", FALSE, NoAdmonition, "") >>

(* _create_config(sections, validate_param_types=...) *)
EntryConfigs ==
    {Config(GlobalConfig(FALSE, TRUE, FALSE, v), s) :
        v \in BOOLEAN,
        s \in {ParametersSections, ArgsSections, RaisesSections, ParamsSections,
               ParamsReturnsSections}}

-----------------------------------------------------------------------------
(* The parsed source: ast nodes of definitions.                             *)

(* ast.get_docstring: None, or the cleaned text as its lines *)
NoDocstring == [none |-> TRUE, lines |-> << >>]

Docstring(lines) == [none |-> FALSE, lines |-> lines]

(* a decorator expression: ast.Name (`@id`) or ast.Attribute (`@value.attr`) *)
NameDecorator(id) == [type |-> "Name", id |-> id, value |-> "", attr |-> ""]

AttributeDecorator(value, attr) ==
    [type |-> "Attribute", id |-> "", value |-> value, attr |-> attr]

(* ast.arg: the parameter's name and its annotation text ("" when it has none) *)
Arg(name, annotation) == [arg |-> name, annotation |-> annotation]

(* ast.FunctionDef / ast.AsyncFunctionDef / ast.ClassDef; body holds the nested definitions *)
FunctionDef(name, lineno, decorator_list, args, docstring, body) ==
    [type |-> "FunctionDef", name |-> name, lineno |-> lineno,
     decorator_list |-> decorator_list, args |-> args,
     docstring |-> docstring, body |-> body]

AsyncFunctionDef(name, lineno, decorator_list, args, docstring, body) ==
    [type |-> "AsyncFunctionDef", name |-> name, lineno |-> lineno,
     decorator_list |-> decorator_list, args |-> args,
     docstring |-> docstring, body |-> body]

ClassDef(name, lineno, docstring, body) ==
    [type |-> "ClassDef", name |-> name, lineno |-> lineno,
     decorator_list |-> << >>, args |-> << >>,
     docstring |-> docstring, body |-> body]

IsFunctionNode(node) == node.type \in {"FunctionDef", "AsyncFunctionDef"}

-----------------------------------------------------------------------------
(* Definition Discoverer.                                                   *)

(* a faulty variant of _is_overload_function: the qualified form
   <module>.overload is not recognised *)
OverloadByNameOnly(node) ==
    \E i \in DOMAIN node.decorator_list :
        node.decorator_list[i].type = "Name" /\ node.decorator_list[i].id = "overload"

(* DocstringChecker._is_overload_function *)
_is_overload_function(node) ==
    \E i \in DOMAIN node.decorator_list :
        LET decorator == node.decorator_list[i]
        IN  \/ decorator.type = "Name" /\ decorator.id = "overload"
            \/ decorator.type = "Attribute" /\ decorator.attr = "overload"

(* a faulty variant of ShouldCheck: check_private is not consulted *)
ShouldCheckIgnoringFlag(cfg, node) == ~StartsWith(node.name, "_")

(* the privacy rule of the visitor: names starting with "_" are skipped
   unless check_private is set *)
ShouldCheck(cfg, node) ==
    cfg.global_config.check_private \/ ~StartsWith(node.name, "_")

(* FunctionAndClassDetails *)
Item(item_type, node) ==
    [item_type |-> item_type, name |-> node.name, node |-> node, lineno |-> node.lineno]

RECURSIVE VisitBody(_, _, _)
(* the ItemVisitor: depth-first in source order; in_class tells whether the
   class stack is non-empty *)
VisitBody(cfg, nodes, in_class) ==
    IF nodes = << >> THEN << >>
    ELSE LET node == Head(nodes)
             own ==
                 IF node.type = "ClassDef"
                 THEN IF ShouldCheck(cfg, node) THEN << Item("class", node) >> ELSE << >>
                 ELSE IF ShouldCheck(cfg, node) /\ ~_is_overload_function(node)
                      THEN << Item(IF in_class THEN "method" ELSE "function", node) >>
                      ELSE << >>
             nested == VisitBody(cfg, node.body, in_class \/ node.type = "ClassDef")
         IN  own \o nested \o VisitBody(cfg, Tail(nodes), in_class)

(* DocstringChecker._extract_items *)
_extract_items(cfg, tree) == VisitBody(cfg, tree, FALSE)

-----------------------------------------------------------------------------
(* Section Parser: the two header forms, over the lines of a docstring.     *)

RECURSIVE TitleEnd(_, _)
(* the index of the last character before the next double quote from i on *)
TitleEnd(s, i) ==
    IF i > Len(s) \/ SubSeq(s, i, i) = "\"" THEN i - 1 ELSE TitleEnd(s, i + 1)

(* the regular expression [^"]* : the text up to the next double quote *)
TakeTitle(s) == SubSeq(s, 1, TitleEnd(s, 1))

NoMatch == [ok |-> FALSE, prefix |-> "", directive |-> "", title |-> ""]

(* the callout marker a text starts with; the longest marker first *)
MarkerOf(t) ==
    IF StartsWith(t, "???+") THEN "???+"
    ELSE IF StartsWith(t, "???") THEN "???"
    ELSE IF StartsWith(t, "!!!") THEN "!!!"
    ELSE ""

(* admonition form: <marker> <directive> "<Title>", at any indentation *)
MatchAdmonition(line) ==
    LET Quoted(prefix, directive, quoted, title) ==
            IF title # "" /\ Len(title) < Len(quoted)
            THEN [ok |-> TRUE, prefix |-> prefix, directive |-> directive, title |-> title]
            ELSE NoMatch
        Quote(prefix, directive, r3, r4) ==
            IF r4 # r3 /\ StartsWith(r4, "\"")
            THEN Quoted(prefix, directive, Drop(r4, 1), TakeTitle(Drop(r4, 1)))
            ELSE NoMatch
        Directive(prefix, r2, directive) ==
            IF directive # ""
            THEN Quote(prefix, directive, Drop(r2, Len(directive)),
                       LStrip(Drop(r2, Len(directive))))
            ELSE NoMatch
        Blank(prefix, r1, r2) ==
            IF prefix # "" /\ r2 # r1
            THEN Directive(prefix, r2, TakeWhileWord(r2))
            ELSE NoMatch
        Marker(t, prefix) == Blank(prefix, Drop(t, Len(prefix)), LStrip(Drop(t, Len(prefix))))
        Indent(t) == Marker(t, MarkerOf(t))
    IN  Indent(LStrip(line))

(* structured form: a zero-indent word immediately followed by ":" and
   nothing else; "" when the line is no such header *)
StructuredLabel(line) ==
    LET Colon(word, rest) ==
            IF word # "" /\ StartsWith(rest, ":") /\ Strip(Drop(rest, 1)) = ""
            THEN word
            ELSE ""
        Word(word) == Colon(word, Drop(line, Len(word)))
    IN  Word(TakeWhileWord(line))

(* The backquote cannot be written in a string of this language: the model
   writes "~" for it, in docstrings and here alike. *)
Backquote == "~"

Fence == Backquote \o Backquote \o Backquote

(* a fence line opens or closes a fenced code block, with any language tag *)
IsFenceLine(line) == StartsWith(LStrip(line), Fence)

RECURSIVE RStripColon(_)
(* str.rstrip(":") *)
RStripColon(s) ==
    IF s # "" /\ SubSeq(s, Len(s), Len(s)) = ":"
    THEN RStripColon(SubSeq(s, 1, Len(s) - 1))
    ELSE s

(* the name a header is compared by: lower-cased, trimmed, without a trailing colon *)
SectionKey(label) == RStripColon(Strip(Lower(label)))

CodeLanguageTokens == {"py", "python", "sh", "shell"}

SpecialCharacters == {Backquote, ".", "/", "\\"}

(* a faulty variant of IsExcludedLabel: only the empty label is set aside *)
IsEmptyLabel(label) == SectionKey(label) = ""

(* label candidates that are never headers *)
IsExcludedLabel(label) ==
    \/ SectionKey(label) \in {""} \cup CodeLanguageTokens
    \/ \E c \in SpecialCharacters : Contains(label, c)

NoHeader ==
    [ok |-> FALSE, index |-> 0, form |-> "", label |-> "", prefix |-> "", directive |-> ""]

(* the header a line outside every fenced block carries, if any; i is the
   line's index in the docstring *)
HeaderAt(line, i) ==
    LET Header(adm, label, excluded) ==
            IF adm.ok
            THEN IF excluded THEN NoHeader
                 ELSE [ok |-> TRUE, index |-> i, form |-> "admonition", label |-> adm.title,
                       prefix |-> adm.prefix, directive |-> adm.directive]
            ELSE IF label # "" /\ ~excluded
            THEN [ok |-> TRUE, index |-> i, form |-> "structured", label |-> label,
                  prefix |-> "", directive |-> ""]
            ELSE NoHeader
        Candidate(adm, label) ==
            Header(adm, label, IsExcludedLabel(IF adm.ok THEN adm.title ELSE label))
    IN  Candidate(MatchAdmonition(line), StructuredLabel(line))

RECURSIVE ScanHeaders(_, _, _)
(* the scan of the lines from line i on; in_fence tells whether an opening
   fence line is still waiting for its closing one *)
ScanHeaders(lines, i, in_fence) ==
    IF i > Len(lines) THEN << >>
    ELSE IF IsFenceLine(lines[i]) THEN ScanHeaders(lines, i + 1, ~in_fence)
    ELSE IF in_fence THEN ScanHeaders(lines, i + 1, in_fence)
    ELSE LET Found(h) == IF h.ok THEN << h >> ELSE << >>
         IN  Found(HeaderAt(lines[i], i)) \o ScanHeaders(lines, i + 1, in_fence)

(* every detected header of the docstring, in line order *)
Headers(lines) == ScanHeaders(lines, 1, FALSE)

(* the body of the k-th header: the lines up to the next header or the end *)
BodyRange(lines, hs, k) ==
    (hs[k].index + 1)..((IF k < Len(hs) THEN hs[k + 1].index ELSE Len(lines) + 1) - 1)

HasContent(lines, hs, k) ==
    \E j \in BodyRange(lines, hs, k) : Strip(lines[j]) # ""

(* the headers that carry the given section name, as indexes into hs *)
HeadersNamed(hs, name) ==
    {k \in DOMAIN hs : SectionKey(hs[k].label) = Lower(name)}

-----------------------------------------------------------------------------
(* Section-type validators and the cross-cutting checks of one definition.  *)

(* a faulty variant of _check_free_text_section: only a formal admonition
   header satisfies a free-text section *)
FreeTextNeedsHeader(lines, section) ==
    \E i \in DOMAIN lines : MatchAdmonition(lines[i]).ok

(* DocstringChecker._check_free_text_section *)
_check_free_text_section(lines, section) ==
    LET Configured(m, name) ==
            /\ m.ok
            /\ m.prefix = section.prefix
            /\ Lower(m.directive) = Lower(section.admonition.text)
            /\ Contains(Lower(m.title), name)
        Examples(m) ==
            /\ m.ok
            /\ m.prefix = "???+"
            /\ Lower(m.directive) = "example"
            /\ Lower(m.title) = "examples"
        Check(name) ==
            IF section.admonition.is_str /\ section.admonition.text # "" /\ section.prefix # ""
            THEN \E i \in DOMAIN lines : Configured(MatchAdmonition(lines[i]), name)
            ELSE IF name = "summary"
            THEN \E i \in DOMAIN lines : Strip(lines[i]) # ""
            ELSE IF name \in {"examples", "example"}
            THEN \E i \in DOMAIN lines : Examples(MatchAdmonition(lines[i]))
            ELSE TRUE
    IN  Check(Lower(section.name))

(* a list section is present when its header is detected with a non-empty body *)
ListSectionPresent(lines, hs, section) ==
    \E k \in HeadersNamed(hs, section.name) : HasContent(lines, hs, k)

(* DocstringChecker._section_exists *)
_section_exists(lines, hs, section) ==
    IF section.type = "free_text"
    THEN _check_free_text_section(lines, section)
    ELSE ListSectionPresent(lines, hs, section)

(* a faulty variant of ParamsOf: the signature holds the annotated
   parameters only *)
AnnotatedParamsOf(node) ==
    SelectSeq(node.args, LAMBDA a : a.arg \notin {"self", "cls"} /\ a.annotation # "")

(* the parameters of a definition, without self and cls *)
ParamsOf(node) == SelectSeq(node.args, LAMBDA a : a.arg \notin {"self", "cls"})

(* a faulty variant of _is_params_section_required: self counts as a
   parameter *)
ParamsRequiredCountingSelf(item) ==
    IsFunctionNode(item.node) /\ item.node.args # << >>

(* a faulty variant of _is_params_section_required: params is demanded of
   every definition *)
ParamsAlwaysRequired(item) == TRUE

(* DocstringChecker._is_params_section_required *)
_is_params_section_required(item) ==
    IsFunctionNode(item.node) /\ ParamsOf(item.node) # << >>

(* step 8, required presence, for one section *)
RequiredError(lines, hs, item, section) ==
    IF /\ section.required
       /\ ~(Lower(section.name) = "params" /\ ~_is_params_section_required(item))
       /\ ~_section_exists(lines, hs, section)
    THEN << "Missing required section: " \o Title(section.name) >>
    ELSE << >>

RECURSIVE RequiredErrors(_, _, _, _)
(* DocstringChecker._validate_all_required_sections *)
RequiredErrors(lines, hs, item, sections) ==
    IF sections = << >> THEN << >>
    ELSE RequiredError(lines, hs, item, Head(sections))
             \o RequiredErrors(lines, hs, item, Tail(sections))

(* the index in the configuration of the section a header names, 0 when none *)
SectionIndexOf(sections, h) ==
    LET First(named) ==
            IF named = {} THEN 0 ELSE CHOOSE n \in named : \A m \in named : n <= m
        Named(key) == First({n \in DOMAIN sections : Lower(sections[n].name) = key})
    IN  Named(SectionKey(h.label))

(* the detected headers of configured sections, in line order, as section indexes *)
FoundSections(sections, hs) ==
    SelectSeq([k \in DOMAIN hs |-> SectionIndexOf(sections, hs[k])], LAMBDA n : n # 0)

(* a faulty variant of DeclaredAfter: the comparison is turned around *)
DeclaredBefore(sections, a, b) ==
    \/ sections[a].order < sections[b].order
    \/ sections[a].order = sections[b].order /\ a < b

(* section a is declared after section b: by order, ties by declaration *)
DeclaredAfter(sections, a, b) ==
    \/ sections[a].order > sections[b].order
    \/ sections[a].order = sections[b].order /\ a > b

RECURSIVE OrderErrorsFrom(_, _, _)
OrderErrorsFrom(sections, found, k) ==
    IF k > Len(found) THEN << >>
    ELSE (IF DeclaredAfter(sections, found[k - 1], found[k])
          THEN << "Section '" \o sections[found[k]].name \o "' is out of order" >>
          ELSE << >>)
             \o OrderErrorsFrom(sections, found, k + 1)

(* step 7, ordering: DocstringChecker._check_section_order *)
_check_section_order(sections, hs) ==
    OrderErrorsFrom(sections, FoundSections(sections, hs), 2)

(* the first of the given configured sections, 0 when there is none *)
FirstSection(named) ==
    IF named = {} THEN 0 ELSE CHOOSE n \in named : \A m \in named : n <= m

(* a faulty variant of AdmonitionError: every admonition header of a
   configured admonition section is flagged, the right directive too *)
AdmonitionErrorAlways(sections, h) ==
    LET Error(n) ==
            IF n # 0
            THEN << "Section '" \o h.label \o "' has incorrect admonition '"
                        \o h.directive \o "', expected '"
                        \o sections[n].admonition.text \o "'" >>
            ELSE << >>
    IN  Error(FirstSection({n \in DOMAIN sections :
                               /\ sections[n].admonition.is_str
                               /\ sections[n].prefix = h.prefix
                               /\ Lower(sections[n].name) = SectionKey(h.label)}))

(* step 2 for one header: an admonition header with the prefix and the
   title of a configured section and another directive *)
AdmonitionError(sections, h) ==
    LET Error(n) ==
            IF n # 0 /\ Lower(h.directive) # Lower(sections[n].admonition.text)
            THEN << "Section '" \o h.label \o "' has incorrect admonition '"
                        \o h.directive \o "', expected '"
                        \o sections[n].admonition.text \o "'" >>
            ELSE << >>
    IN  Error(FirstSection({n \in DOMAIN sections :
                               /\ sections[n].admonition.is_str
                               /\ sections[n].prefix = h.prefix
                               /\ Lower(sections[n].name) = SectionKey(h.label)}))

RECURSIVE AdmonitionErrorsFrom(_, _, _)
AdmonitionErrorsFrom(sections, hs, k) ==
    IF k > Len(hs) THEN << >>
    ELSE (IF hs[k].form = "admonition" THEN AdmonitionError(sections, hs[k]) ELSE << >>)
             \o AdmonitionErrorsFrom(sections, hs, k + 1)

(* step 2, admonition correctness: DocstringChecker._check_admonition_values *)
_check_admonition_values(sections, hs) == AdmonitionErrorsFrom(sections, hs, 1)

(* a faulty variant of AdmonitionColonError: the title is never looked at *)
AdmonitionColonIgnored(lines, h) == << >>

(* step 3 for one admonition header: its title must not end with ":" *)
AdmonitionColonError(lines, h) ==
    IF h.form = "admonition" /\ EndsWith(h.label, ":")
    THEN << "Section '" \o RStripColon(h.label)
                \o "' is an admonition, therefore it should not end with ':', see: '"
                \o Strip(lines[h.index]) \o "'" >>
    ELSE << >>

RECURSIVE AdmonitionColonErrorsFrom(_, _, _)
AdmonitionColonErrorsFrom(lines, hs, k) ==
    IF k > Len(hs) THEN << >>
    ELSE AdmonitionColonError(lines, hs[k]) \o AdmonitionColonErrorsFrom(lines, hs, k + 1)

(* step 3 for one line outside the fences: a zero-indent word alone on its
   line that names a configured non-admonition section lacks its ":" *)
BareLabelError(sections, line) ==
    LET Error(word) ==
            IF /\ word # ""
               /\ RStrip(line) = word
               /\ FirstSection({n \in DOMAIN sections :
                                    /\ ~sections[n].admonition.is_str
                                    /\ Lower(sections[n].name) = Lower(word)}) # 0
            THEN << "Section '" \o word
                        \o "' is non-admonition, therefore it must end with ':', see: '"
                        \o word \o "'" >>
            ELSE << >>
    IN  Error(TakeWhileWord(line))

RECURSIVE BareLabelErrorsFrom(_, _, _, _)
BareLabelErrorsFrom(sections, lines, i, in_fence) ==
    IF i > Len(lines) THEN << >>
    ELSE IF IsFenceLine(lines[i]) THEN BareLabelErrorsFrom(sections, lines, i + 1, ~in_fence)
    ELSE IF in_fence THEN BareLabelErrorsFrom(sections, lines, i + 1, in_fence)
    ELSE BareLabelError(sections, lines[i])
             \o BareLabelErrorsFrom(sections, lines, i + 1, in_fence)

(* step 3, colon convention: DocstringChecker._check_colon_usage *)
_check_colon_usage(sections, lines, hs) ==
    AdmonitionColonErrorsFrom(lines, hs, 1) \o BareLabelErrorsFrom(sections, lines, 1, FALSE)

(* a faulty variant of TitleCaseError: labels are compared without regard
   to case *)
TitleCaseErrorIgnoringCase(sections, h) == << >>

(* step 4 for one header: a structured-form label of a configured section
   must be the title-cased name of that section *)
TitleCaseError(sections, h) ==
    LET Error(n) ==
            IF n # 0 /\ h.label # Title(sections[n].name)
            THEN << "Section '" \o sections[n].name \o "' must be in title case: '"
                        \o Title(sections[n].name) \o "', found: '" \o h.label \o "'" >>
            ELSE << >>
    IN  IF h.form = "structured"
        THEN Error(FirstSection({n \in DOMAIN sections :
                                     Lower(sections[n].name) = SectionKey(h.label)}))
        ELSE << >>

RECURSIVE TitleCaseErrorsFrom(_, _, _)
TitleCaseErrorsFrom(sections, hs, k) ==
    IF k > Len(hs) THEN << >>
    ELSE TitleCaseError(sections, hs[k]) \o TitleCaseErrorsFrom(sections, hs, k + 1)

(* step 4, title-case convention: DocstringChecker._check_title_case_sections *)
_check_title_case_sections(sections, hs) == TitleCaseErrorsFrom(sections, hs, 1)

(* the regular expression ^\([^)]+\): on a text: a parenthesized type and
   a colon right after it *)
StartsWithType(t) ==
    LET Inner(inner) == inner # "" /\ StartsWith(Drop(t, Len(inner) + 2), ":")
    IN  StartsWith(t, "(") /\ Inner(Before(Drop(t, 1), ")"))

(* an entry of a list_type section: (Type): at the start of the line *)
IsTypeEntry(line) == StartsWithType(LStrip(line))

(* an entry of a list_name_and_type section: name (Type): ; the line is
   searched for a parenthesized type with its colon, so that the nameless
   (Type): of test_39 is an entry too *)
IsNameAndTypeEntry(line) ==
    \E i \in 1..Len(line) : StartsWithType(Drop(line, i - 1))

FillerWords == {"default", "output", "format", "show", "example"}

(* the line has a prose word before its colon *)
HasFillerWord(line) ==
    LET Among(words) == \E k \in DOMAIN words : words[k] \in FillerWords
    IN  Among(Words(Lower(Before(Strip(line), ":"))))

(* no entry with a parenthesized type has been met in the section *)
NoTypeLine == -1

ParenthesesError(section, line) ==
    << "Section '" \o section.name \o "' (type: '" \o section.type
           \o "') requires parenthesized types, see: '" \o Strip(line) \o "'" >>

(* a faulty variant of _validate_list_type_format: an entry without a type
   is flagged before the first entry with a type too *)
ListTypeStrict(section, line, type_line_indent) ==
    IF \/ type_line_indent # NoTypeLine /\ IndentOf(line) > type_line_indent
       \/ HasFillerWord(line)
    THEN << >>
    ELSE ParenthesesError(section, line)

(* a faulty variant of _validate_list_type_format: the indentation of the
   line is not looked at *)
ListTypeFlat(section, line, type_line_indent) ==
    IF type_line_indent = NoTypeLine \/ HasFillerWord(line)
    THEN << >>
    ELSE ParenthesesError(section, line)

(* DocstringChecker._validate_list_type_format, for a line that is no
   entry with a type: tolerated before the first entry with a type, as a
   deeper continuation, and with a prose word *)
_validate_list_type_format(section, line, type_line_indent) ==
    IF \/ type_line_indent = NoTypeLine
       \/ IndentOf(line) > type_line_indent
       \/ HasFillerWord(line)
    THEN << >>
    ELSE ParenthesesError(section, line)

(* a faulty variant of _validate_list_name_and_type_format: as in a
   list_type section, nothing is flagged before the first entry with a type *)
NameAndTypeTolerant(section, line, type_line_indent) ==
    IF \/ type_line_indent = NoTypeLine
       \/ ~Contains(line, ":")
       \/ HasFillerWord(line)
       \/ IndentOf(line) > type_line_indent
       \/ Len(Words(Before(Strip(line), ":"))) > 2
    THEN << >>
    ELSE ParenthesesError(section, line)

(* a faulty variant of _validate_list_name_and_type_format: the words
   before the colon are not counted *)
NameAndTypeAnyWords(section, line, type_line_indent) ==
    IF \/ ~Contains(line, ":")
       \/ HasFillerWord(line)
       \/ type_line_indent # NoTypeLine /\ IndentOf(line) > type_line_indent
    THEN << >>
    ELSE ParenthesesError(section, line)

(* a faulty variant of _validate_list_name_and_type_format: two words
   before the colon are taken for prose already *)
NameAndTypeOneWord(section, line, type_line_indent) ==
    IF \/ ~Contains(line, ":")
       \/ HasFillerWord(line)
       \/ type_line_indent # NoTypeLine /\ IndentOf(line) > type_line_indent
       \/ Len(Words(Before(Strip(line), ":"))) > 1
    THEN << >>
    ELSE ParenthesesError(section, line)

(* DocstringChecker._validate_list_name_and_type_format, for a line that is
   no entry with a name and a type: skipped without a colon, with a prose
   word, as a deeper continuation of an entry with a type, and with more
   than two words before the colon *)
_validate_list_name_and_type_format(section, line, type_line_indent) ==
    IF \/ ~Contains(line, ":")
       \/ HasFillerWord(line)
       \/ type_line_indent # NoTypeLine /\ IndentOf(line) > type_line_indent
       \/ Len(Words(Before(Strip(line), ":"))) > 2
    THEN << >>
    ELSE ParenthesesError(section, line)

RECURSIVE EntryErrorsFrom(_, _, _, _, _)
(* the entries of one list section, from line i to line last of the
   docstring; type_line_indent is the indentation of the last entry with a
   type, NoTypeLine before the first *)
EntryErrorsFrom(section, lines, i, last, type_line_indent) ==
    IF i > last THEN << >>
    ELSE IF Strip(lines[i]) = ""
    THEN EntryErrorsFrom(section, lines, i + 1, last, type_line_indent)
    ELSE IF section.type = "list_type"
    THEN IF IsTypeEntry(lines[i])
         THEN EntryErrorsFrom(section, lines, i + 1, last, IndentOf(lines[i]))
         ELSE _validate_list_type_format(section, lines[i], type_line_indent)
                  \o EntryErrorsFrom(section, lines, i + 1, last, type_line_indent)
    ELSE IF IsNameAndTypeEntry(lines[i])
         THEN EntryErrorsFrom(section, lines, i + 1, last, IndentOf(lines[i]))
         ELSE _validate_list_name_and_type_format(section, lines[i], type_line_indent)
                  \o EntryErrorsFrom(section, lines, i + 1, last, type_line_indent)

RECURSIVE ParenthesesErrorsFrom(_, _, _, _)
ParenthesesErrorsFrom(sections, lines, hs, k) ==
    IF k > Len(hs) THEN << >>
    ELSE LET Body(n, last) ==
                 IF n # 0 /\ sections[n].type \in {"list_type", "list_name_and_type"}
                 THEN EntryErrorsFrom(sections[n], lines, hs[k].index + 1, last, NoTypeLine)
                 ELSE << >>
         IN  Body(SectionIndexOf(sections, hs[k]),
                  IF k < Len(hs) THEN hs[k + 1].index - 1 ELSE Len(lines))
                 \o ParenthesesErrorsFrom(sections, lines, hs, k + 1)

(* step 5, parenthesized types: DocstringChecker._check_parentheses_validation *)
_check_parentheses_validation(sections, lines, hs) ==
    ParenthesesErrorsFrom(sections, lines, hs, 1)

RECURSIVE UndefinedErrorsFrom(_, _, _)
UndefinedErrorsFrom(sections, hs, k) ==
    IF k > Len(hs) THEN << >>
    ELSE (IF SectionIndexOf(sections, hs[k]) = 0
          THEN << "Section '" \o SectionKey(hs[k].label)
                      \o "' found in docstring but not defined in configuration" >>
          ELSE << >>)
             \o UndefinedErrorsFrom(sections, hs, k + 1)

(* a faulty variant of _check_undefined_sections: allow_undefined_sections
   is not consulted *)
UndefinedIgnoringFlag(cfg, hs) == UndefinedErrorsFrom(cfg.sections, hs, 1)

(* step 6, undefined sections: DocstringChecker._check_undefined_sections *)
_check_undefined_sections(cfg, hs) ==
    IF cfg.global_config.allow_undefined_sections THEN << >>
    ELSE UndefinedErrorsFrom(cfg.sections, hs, 1)

(* a faulty variant of _check_returns_yields: one of the two sections is
   enough for the violation *)
ReturnsOrYields(lines, hs) ==
    IF \E name \in {"returns", "yields"} :
           \E k \in HeadersNamed(hs, name) : HasContent(lines, hs, k)
    THEN << "Docstring cannot have both Returns and Yields sections" >>
    ELSE << >>

(* step 9, Returns/Yields exclusivity *)
_check_returns_yields(lines, hs) ==
    IF \A name \in {"returns", "yields"} :
           \E k \in HeadersNamed(hs, name) : HasContent(lines, hs, k)
    THEN << "Docstring cannot have both Returns and Yields sections" >>
    ELSE << >>

NoParamEntry == [ok |-> FALSE, name |-> "", type |-> ""]

(* the regular expression ^\s*(\w+)\s*\(([^)]+)\): on a line of the params
   section: the name and the type of the entry *)
ParamEntry(line) ==
    LET Typed(name, rest) ==
            IF name # "" /\ StartsWithType(rest)
            THEN [ok |-> TRUE, name |-> name, type |-> Before(Drop(rest, 1), ")")]
            ELSE NoParamEntry
        Named(t, name) == Typed(name, LStrip(Drop(t, Len(name))))
    IN  Named(LStrip(line), TakeWhileWord(LStrip(line)))

RECURSIVE ParamEntriesFrom(_, _, _)
ParamEntriesFrom(lines, i, last) ==
    IF i > last THEN << >>
    ELSE LET Found(e) == IF e.ok THEN << e >> ELSE << >>
         IN  Found(ParamEntry(lines[i])) \o ParamEntriesFrom(lines, i + 1, last)

(* a faulty variant of _extract_param_types_from_docstring: the scan runs
   on to the end of the docstring *)
ExtractAcrossSections(lines, hs) ==
    LET First(named) ==
            IF named = {} THEN << >>
            ELSE ParamEntriesFrom(lines, hs[CHOOSE k \in named : \A m \in named : k <= m].index + 1,
                                  Len(lines))
    IN  First(HeadersNamed(hs, "params"))

(* DocstringChecker._extract_param_types_from_docstring: the entries with
   a type of the Params section, up to the next header *)
_extract_param_types_from_docstring(lines, hs) ==
    LET Body(k) ==
            ParamEntriesFrom(lines, hs[k].index + 1,
                             IF k < Len(hs) THEN hs[k + 1].index - 1 ELSE Len(lines))
        First(named) ==
            IF named = {} THEN << >>
            ELSE Body(CHOOSE k \in named : \A m \in named : k <= m)
    IN  First(HeadersNamed(hs, "params"))

(* dict lookup: the type the docstring gives the name, "" when it gives none;
   a later entry of a name replaces an earlier one *)
DocstringTypeOf(docstring_types, name) ==
    LET Last(named) ==
            IF named = {} THEN ""
            ELSE docstring_types[CHOOSE k \in named : \A m \in named : k >= m].type
    IN  Last({k \in DOMAIN docstring_types : docstring_types[k].name = name})

(* the text two types are compared by: case and outer blanks do not count *)
NormalizeType(type) == Lower(Strip(type))

RECURSIVE _compare_param_types(_, _)
(* DocstringChecker._compare_param_types: the names that have a type in
   the signature and in the docstring, and whose types differ; a name the
   docstring gives no type is passed over *)
_compare_param_types(signature, docstring_types) ==
    IF signature = << >> THEN << >>
    ELSE LET Mismatch(arg, doc_type) ==
                 IF /\ arg.annotation # ""
                    /\ doc_type # ""
                    /\ NormalizeType(arg.annotation) # NormalizeType(doc_type)
                 THEN << arg.arg \o " type mismatch: signature has '" \o arg.annotation
                             \o "' but docstring has '" \o doc_type \o "'" >>
                 ELSE << >>
         IN  Mismatch(Head(signature), DocstringTypeOf(docstring_types, Head(signature).arg))
                 \o _compare_param_types(Tail(signature), docstring_types)

(* a faulty variant of UnmatchedTypeError: an annotated parameter without a
   type in the docstring is passed over *)
UnmatchedOfDocumented(arg, doc_type) ==
    IF arg.annotation = "" /\ doc_type # ""
    THEN << arg.arg \o " has type '" \o doc_type
                \o "' in docstring but no type annotation in signature" >>
    ELSE << >>

(* a faulty variant of UnmatchedTypeError: a parameter without an annotation
   is passed over *)
UnmatchedOfAnnotated(arg, doc_type) ==
    IF arg.annotation # "" /\ doc_type = ""
    THEN << arg.arg \o " has type annotation '" \o arg.annotation
                \o "' in signature but no type in docstring" >>
    ELSE << >>

(* the report of a parameter that has a type on one side only *)
UnmatchedTypeError(arg, doc_type) ==
    IF arg.annotation # "" /\ doc_type = ""
    THEN << arg.arg \o " has type annotation '" \o arg.annotation
                \o "' in signature but no type in docstring" >>
    ELSE IF arg.annotation = "" /\ doc_type # ""
    THEN << arg.arg \o " has type '" \o doc_type
                \o "' in docstring but no type annotation in signature" >>
    ELSE << >>

RECURSIVE UnmatchedTypeErrorsFrom(_, _)
UnmatchedTypeErrorsFrom(signature, docstring_types) ==
    IF signature = << >> THEN << >>
    ELSE UnmatchedTypeError(Head(signature),
                            DocstringTypeOf(docstring_types, Head(signature).arg))
             \o UnmatchedTypeErrorsFrom(Tail(signature), docstring_types)

(* a faulty variant of _validate_param_types: validate_param_types is not
   consulted *)
ValidateParamTypesAlways(cfg, item, lines, hs) ==
    LET Report(signature, docstring_types) ==
            _compare_param_types(signature, docstring_types)
                \o UnmatchedTypeErrorsFrom(signature, docstring_types)
    IN  IF IsFunctionNode(item.node)
        THEN Report(ParamsOf(item.node), _extract_param_types_from_docstring(lines, hs))
        ELSE << >>

(* step 10, parameter types: DocstringChecker._validate_param_types, run
   only where validate_param_types is set; self and cls are no parameters *)
_validate_param_types(cfg, item, lines, hs) ==
    LET Report(signature, docstring_types) ==
            _compare_param_types(signature, docstring_types)
                \o UnmatchedTypeErrorsFrom(signature, docstring_types)
    IN  IF cfg.global_config.validate_param_types /\ IsFunctionNode(item.node)
        THEN Report(ParamsOf(item.node), _extract_param_types_from_docstring(lines, hs))
        ELSE << >>

(* every violation of a definition that has a docstring, in the order of the checks *)
_validate_docstring_sections(cfg, item) ==
    LET Checks(lines, hs) ==
            _check_admonition_values(cfg.sections, hs)
                \o _check_colon_usage(cfg.sections, lines, hs)
                \o _check_title_case_sections(cfg.sections, hs)
                \o _check_parentheses_validation(cfg.sections, lines, hs)
                \o _check_undefined_sections(cfg, hs)
                \o _check_section_order(cfg.sections, hs)
                \o RequiredErrors(lines, hs, item, cfg.sections)
                \o _check_returns_yields(lines, hs)
                \o _validate_param_types(cfg, item, lines, hs)
    IN  Checks(item.node.docstring.lines, Headers(item.node.docstring.lines))

(* a faulty variant of _is_docstring_required: a docstring is demanded of
   classes too *)
DocstringRequiredOfEveryKind(item) == TRUE

(* whether a definition without a docstring is reported: classes are not *)
_is_docstring_required(item) == item.item_type # "class"

(* a faulty variant of Violations: require_docstrings is not consulted *)
ViolationsIgnoringFlag(cfg, item) ==
    IF item.node.docstring.none
    THEN << "Missing docstring for " \o item.item_type \o " '" \o item.name \o "'" >>
    ELSE << >>

(* step 1 and the rest: the violations of one definition *)
Violations(cfg, item) ==
    IF item.node.docstring.none
    THEN IF cfg.global_config.require_docstrings /\ _is_docstring_required(item)
         THEN << "Missing docstring for " \o item.item_type \o " '" \o item.name \o "'" >>
         ELSE << >>
    ELSE _validate_docstring_sections(cfg, item)

DocstringError(message, file_path, line_number, item_name, item_type) ==
    [message |-> message, file_path |-> file_path, line_number |-> line_number,
     item_name |-> item_name, item_type |-> item_type]

(* a faulty variant of _check_single_docstring: it raises at the first
   violation, which hides the later ones *)
FirstViolationOnly(cfg, item, file_path) ==
    LET Raise(violations) ==
            IF violations = << >> THEN << >>
            ELSE << DocstringError(Head(violations), file_path, item.lineno,
                                   item.name, item.item_type) >>
    IN  Raise(Violations(cfg, item))

(* DocstringChecker._check_single_docstring: it raises one DocstringError
   carrying every violation joined by "; ", or returns; check_file collects
   what it raises *)
_check_single_docstring(cfg, item, file_path) ==
    LET Raise(violations) ==
            IF violations = << >> THEN << >>
            ELSE << DocstringError(Join(violations, "; "), file_path, item.lineno,
                                   item.name, item.item_type) >>
    IN  Raise(Violations(cfg, item))

-----------------------------------------------------------------------------
(* Directory/File Driver: check_file and check_directory over a file system. *)

(* a file system maps each existing path to a directory or a file; a file
   holds bytes that decode as UTF-8 or not, text that parses or not, and,
   when it parses, the definitions of its tree *)
Directory == [kind |-> "dir", decodes |-> FALSE, parses |-> FALSE, tree |-> << >>]

SourceFile(tree) == [kind |-> "file", decodes |-> TRUE, parses |-> TRUE, tree |-> tree]

UndecodableFile == [kind |-> "file", decodes |-> FALSE, parses |-> FALSE, tree |-> << >>]

SyntaxErrorFile == [kind |-> "file", decodes |-> TRUE, parses |-> FALSE, tree |-> << >>]

Returned(errors) == [raised |-> "", message |-> "", errors |-> errors]

Raised(exception, message) == [raised |-> exception, message |-> message, errors |-> << >>]

RECURSIVE CheckItems(_, _, _)
(* the loop of check_file over the extracted items *)
CheckItems(cfg, items, file_path) ==
    IF items = << >> THEN << >>
    ELSE _check_single_docstring(cfg, Head(items), file_path)
             \o CheckItems(cfg, Tail(items), file_path)

(* a faulty variant of check_file: a file that cannot be decoded is skipped
   with an empty list *)
CheckFileSkippingUndecodable(cfg, files, file_path) ==
    IF file_path \notin DOMAIN files
    THEN Raised("FileNotFoundError", "File not found: " \o file_path)
    ELSE IF ~EndsWith(file_path, ".py")
    THEN Raised("InvalidFileError", "File must be a Python file (.py): " \o file_path)
    ELSE IF ~files[file_path].decodes
    THEN Returned(<< >>)
    ELSE IF ~files[file_path].parses
    THEN Raised("SyntaxError", "Invalid Python syntax in " \o file_path)
    ELSE Returned(CheckItems(cfg, _extract_items(cfg, files[file_path].tree), file_path))

(* DocstringChecker.check_file *)
check_file(cfg, files, file_path) ==
    IF file_path \notin DOMAIN files
    THEN Raised("FileNotFoundError", "File not found: " \o file_path)
    ELSE IF ~EndsWith(file_path, ".py")
    THEN Raised("InvalidFileError", "File must be a Python file (.py): " \o file_path)
    ELSE IF ~files[file_path].decodes
    THEN Raised("ValueError", "Cannot decode file " \o file_path)
    ELSE IF ~files[file_path].parses
    THEN Raised("SyntaxError", "Invalid Python syntax in " \o file_path)
    ELSE Returned(CheckItems(cfg, _extract_items(cfg, files[file_path].tree), file_path))

RECURSIVE FnMatch(_, _)
(* fnmatch.fnmatch with the wildcards "*" and "?" *)
FnMatch(name, pattern) ==
    IF pattern = "" THEN name = ""
    ELSE IF Head(pattern) = "*"
    THEN FnMatch(name, Tail(pattern)) \/ (name # "" /\ FnMatch(Tail(name), pattern))
    ELSE /\ name # ""
         /\ (Head(pattern) = "?" \/ Head(pattern) = Head(name))
         /\ FnMatch(Tail(name), Tail(pattern))

(* Path.relative_to(directory_path) *)
RelativeTo(file_path, directory_path) == Drop(file_path, Len(directory_path) + 1)

(* DocstringChecker._should_exclude_file *)
_should_exclude_file(relative_path, exclude_patterns) ==
    \E i \in DOMAIN exclude_patterns : FnMatch(relative_path, exclude_patterns[i])

(* directory_path.glob("**/*.py") or glob("*.py") *)
PythonFiles(files, directory_path, recursive) ==
    {p \in DOMAIN files :
        /\ files[p].kind = "file"
        /\ StartsWith(p, directory_path \o "/")
        /\ EndsWith(p, ".py")
        /\ (recursive \/ ~Contains(RelativeTo(p, directory_path), "/"))}

(* a faulty variant of _check_file_with_error_handling: the failure of a
   file is swallowed and leaves no error *)
CheckFileDroppingFailures(cfg, files, file_path) ==
    check_file(cfg, files, file_path).errors

(* DocstringChecker._check_file_with_error_handling *)
_check_file_with_error_handling(cfg, files, file_path) ==
    LET Handle(res) ==
            IF res.raised \in {"FileNotFoundError", "ValueError", "SyntaxError"}
            THEN << DocstringError(res.message, file_path, 0, "", "file") >>
            ELSE res.errors
    IN  Handle(check_file(cfg, files, file_path))

NoResults == << >>

(* a faulty variant of check_directory: every checked file becomes a key,
   the files without errors with an empty list *)
CheckDirectoryKeepingEmpty(cfg, files, directory_path, exclude_patterns, recursive) ==
    IF directory_path \notin DOMAIN files
    THEN [raised |-> "FileNotFoundError",
          message |-> "Directory not found: " \o directory_path, results |-> << >>]
    ELSE IF files[directory_path].kind # "dir"
    THEN [raised |-> "DirectoryNotFoundError",
          message |-> "Path is not a directory: " \o directory_path, results |-> << >>]
    ELSE [raised |-> "", message |-> "",
          results |->
              [p \in {q \in PythonFiles(files, directory_path, recursive) :
                         ~_should_exclude_file(RelativeTo(q, directory_path),
                                               exclude_patterns)} |->
                  _check_file_with_error_handling(cfg, files, p)]]

(* DocstringChecker.check_directory *)
check_directory(cfg, files, directory_path, exclude_patterns, recursive) ==
    IF directory_path \notin DOMAIN files
    THEN [raised |-> "FileNotFoundError",
          message |-> "Directory not found: " \o directory_path, results |-> NoResults]
    ELSE IF files[directory_path].kind # "dir"
    THEN [raised |-> "DirectoryNotFoundError",
          message |-> "Path is not a directory: " \o directory_path, results |-> NoResults]
    ELSE LET Results(errors) ==
                 [raised |-> "", message |-> "",
                  results |-> [p \in {q \in DOMAIN errors : errors[q] # << >>} |-> errors[p]]]
             Checked(files_to_check) ==
                 Results([p \in files_to_check |->
                             _check_file_with_error_handling(cfg, files, p)])
         IN  Checked({p \in PythonFiles(files, directory_path, recursive) :
                        ~_should_exclude_file(RelativeTo(p, directory_path),
                                              exclude_patterns)})

-----------------------------------------------------------------------------
(* The docstrings the test suite feeds the checker, as ast.get_docstring
   returns them: cleaned of the common indentation, one string per line.    *)

DocOneLine == Docstring(<< "This function has a docstring." >>)

DocOverloadImpl ==
    Docstring(<< "Summary:", "    A function with overloads.", "",
                 "Params:", "    x (Union[int, str]):", "        Input parameter.", "",
                 "Returns:", "    (Union[int, str]):", "        Same type as input." >>)

DocBadOrder ==
    Docstring(<< "This function has sections in wrong order.", "",
                 "Returns:", "    Something", "",
                 "Params:", "    param1:", "        A parameter" >>)

DocGoodOrder ==
    Docstring(<< "This function has sections in the right order.", "",
                 "Params:", "    param1:", "        A parameter", "",
                 "Returns:", "    Something" >>)

DocReturnsAndYields ==
    Docstring(<< "Function with both returns and yields sections.", "",
                 "Returns:", "    (str):", "        Some return value", "",
                 "Yields:", "    (int):", "        Some yielded value" >>)

DocDetailed ==
    Docstring(<< "!!! note \"Summary\"", "    This is a summary.", "",
                 "Params:", "    param1 (str):", "        First parameter.", "",
                 "Returns:", "    (bool):", "        Return value.", "",
                 "???+ example \"Examples\"", "    Example usage here." >>)

DocIncompleteDetailed ==
    Docstring(<< "!!! note \"Summary\"", "    This is a summary." >>)

DocIncompleteParams ==
    Docstring(<< "This function has incomplete documentation.", "",
                 "Params:", "    param1:", "        First parameter" >>)

DocNumpyReturns ==
    Docstring(<< "This function is missing the Parameters section.", "",
                 "Returns", "-------", "str", "    Return value." >>)

DocCustomSection ==
    Docstring(<< "Unknown Custom Section:",
                 "    This should trigger the default return True path." >>)

DocEmptyParamsBody ==
    Docstring(<< "This function documents nothing under its header.", "",
                 "Params:", "",
                 "Returns:", "    (bool):", "        Return value." >>)

DocManyViolations ==
    Docstring(<< "This function has sections in wrong order.", "",
                 "Returns:", "    Something", "",
                 "Params:", "    param1:", "        A parameter", "",
                 "References:", "    Elsewhere." >>)

DocFencedLabel ==
    Docstring(<< "This function shows code.", "",
                 "~~~python", "Custom:", "~~~" >>)

DocCodeBlocks ==
    Docstring(<< "Summary:", "    Function with code blocks that should be ignored.", "",
                 "~~~python", "def example():", "    pass", "~~~", "",
                 "~~~sh", "echo \"hello\"", "~~~", "",
                 "Some.Path.With.Dots:", "    Should be ignored due to dots.", "",
                 "/path/to/file:", "    Should be ignored due to slashes.", "",
                 "back\\slash\\path:", "    Should be ignored due to backslashes.", "",
                 "~inline_code~:", "    Should be ignored due to backticks." >>)

DocCodeLanguages ==
    Docstring(<< "Summary:", "    Basic content", "",
                 "py:", "    This should be skipped (code language)", "",
                 "python:", "    This should be skipped (code language)", "",
                 "sh:", "    This should be skipped (code language)", "",
                 "shell:", "    This should be skipped (code language)", "",
                 "Valid_Section:", "    This should be detected" >>)

DocSpecialAdmonitions ==
    Docstring(<< "Regular section here.", "",
                 "!!! note \"Summary\"", "    This should be detected", "",
                 "!!! note \"Code.File\"", "    This should be skipped due to dot", "",
                 "!!! note \"path/to/file\"", "    This should be skipped due to slash", "",
                 "!!! note \"code~block\"", "    This should be skipped due to backtick", "",
                 "!!! note \"back\\slash\"", "    This should be skipped due to backslash", "",
                 "!!! note \"Valid_Section\"", "    This should be detected" >>)

(* labels that only look like headers: inside a fence in either form, a
   code-language token and an empty label as admonition titles; one ordinary
   label after the fence *)
DocHiddenLabels ==
    Docstring(<< "This function shows code.", "",
                 "~~~python", "Custom:", "!!! note \"Hidden\"", "~~~", "",
                 "!!! note \"python\"", "    A language, no section.", "",
                 "!!! note \":\"", "    No label at all.", "",
                 "Visible:", "    An ordinary label." >>)

DocUndefinedSection ==
    Docstring(<< "!!! note \"Summary\"", "    This is a summary.", "",
                 "Undefined_Section:", "    This section is not defined in config." >>)

DocUndefinedSections ==
    Docstring(<< "!!! note \"Summary\"", "    This function has undefined sections.", "",
                 "Params:", "    param1 (str): A parameter.", "",
                 "Returns:", "    (bool): A return value.", "",
                 "??? question \"References\"", "    - Some reference (not in config).", "",
                 "Notes:", "    Some additional notes (not in config)." >>)

DocRightAdmonition ==
    Docstring(<< "!!! note \"Summary\"", "    This has the correct admonition.", "",
                 "???+ info \"Details\"", "    This also has the correct admonition." >>)

DocWrongAdmonition ==
    Docstring(<< "!!! note \"Summary\"", "    This has the correct admonition.", "",
                 "???+ abstract \"Details\"",
                 "    This has wrong admonition (should be 'info')." >>)

DocAdmonitionColons ==
    Docstring(<< "!!! note \"Summary:\"", "    This should not end with colon.", "",
                 "???+ info \"Details:\"", "    This also should not end with colon." >>)

DocNoColons ==
    Docstring(<< "Summary", "    This should end with colon.", "",
                 "Params", "    param1 (str): A parameter.", "",
                 "Returns", "    (bool): A return value." >>)

(* the two colon faults of test_55 and test_56 in one docstring, and one
   header of each form written as it should be *)
DocMixedColons ==
    Docstring(<< "!!! note \"Summary:\"", "    This should not end with colon.", "",
                 "Params", "    param1 (str): A parameter.", "",
                 "Returns:", "    (bool): A return value.", "",
                 "???+ example \"Examples\"", "    An example." >>)

(* test_57: three structured headers, none in title case *)
DocWrongCase ==
    Docstring(<< "summary:", "    This should be \"Summary:\"", "",
                 "PARAMS:", "    param1 (str): A parameter.", "",
                 "returns:", "    (bool): A return value." >>)

(* the docstring of test_57 with its first and last header in title case *)
DocMixedCase ==
    Docstring(<< "Summary:", "    This is \"Summary:\"", "",
                 "PARAMS:", "    param1 (str): A parameter.", "",
                 "Returns:", "    (bool): A return value." >>)

(* the docstrings of the tests of the header rules *)
HeaderDocstrings ==
    {DocCodeBlocks, DocCodeLanguages, DocSpecialAdmonitions, DocHiddenLabels,
     DocUndefinedSection, DocUndefinedSections, DocRightAdmonition,
     DocWrongAdmonition, DocAdmonitionColons, DocNoColons, DocMixedColons,
     DocWrongCase, DocMixedCase}

Docstrings ==
    {DocOneLine, DocOverloadImpl, DocBadOrder, DocGoodOrder, DocReturnsAndYields,
     DocDetailed, DocIncompleteDetailed, DocIncompleteParams, DocNumpyReturns,
     DocCustomSection, DocEmptyParamsBody, DocManyViolations, DocFencedLabel}

-----------------------------------------------------------------------------
(* The modules under check: the trees ast.parse returns for them.           *)

(* a module of one definition: a function, a coroutine, a class, or a
   method of a documented class *)
UnitTree(kind, name, args, docstring) ==
    CASE kind = "function" ->
             << FunctionDef(name, 1, << >>, args, docstring, << >>) >>
      [] kind = "async" ->
             << AsyncFunctionDef(name, 1, << >>, args, docstring, << >>) >>
      [] kind = "class" ->
             << ClassDef(name, 1, docstring, << >>) >>
      [] kind = "method" ->
             << ClassDef("Holder", 1, Docstring(<< "Holder of one method." >>),
                         << FunctionDef(name, 4, << >>, << Arg("self", "") >> \o args,
                                        docstring, << >>) >>) >>

NoArgs == << >>

OneArg == << Arg("param1", "") >>

PublicUnitTrees ==
    {UnitTree(k, "thing", a, d) :
        k \in {"function", "method"}, a \in {NoArgs, OneArg},
        d \in Docstrings \cup {NoDocstring}}
    \cup {UnitTree(k, "thing", NoArgs, d) :
             k \in {"class", "async"}, d \in Docstrings \cup {NoDocstring}}

PrivateUnitTrees ==
    {UnitTree(k, n, OneArg, d) :
        k \in {"function", "method", "class"}, n \in {"_thing", "__thing__"},
        d \in {NoDocstring, DocOneLine, DocManyViolations}}

(* a function, a class and its method, none documented *)
MissingDocstringsTree ==
    << FunctionDef("bad_function", 2, << >>, NoArgs, NoDocstring, << >>),
       ClassDef("BadClass", 5, NoDocstring,
                << FunctionDef("bad_method", 6, << >>,
                               << Arg("self", "") >>, NoDocstring, << >>) >>) >>

(* test_01: a function, a class and its method, each with a one-line
   docstring *)
GoodDocstringsTree ==
    << FunctionDef("good_function", 2, << >>, NoArgs,
                   Docstring(<< "This function has a docstring." >>), << >>),
       ClassDef("GoodClass", 6, Docstring(<< "This class has a docstring." >>),
                << FunctionDef("good_method", 9, << >>, << Arg("self", "") >>,
                               Docstring(<< "This method has a docstring." >>), << >>) >>) >>

(* a class nested in a class; one inner method is not documented *)
NestedClassesTree ==
    << ClassDef("OuterClass", 2, Docstring(<< "Outer class docstring." >>),
          << FunctionDef("outer_method", 7, << >>, << Arg("self", "") >>,
                         Docstring(<< "Outer method docstring." >>), << >>),
             ClassDef("InnerClass", 13, Docstring(<< "Inner class docstring." >>),
                << FunctionDef("inner_method", 18, << >>, << Arg("self", "") >>,
                               Docstring(<< "Inner method docstring." >>), << >>),
                   FunctionDef("missing_docstring_inner", 24, << >>,
                               << Arg("self", "") >>, NoDocstring, << >>) >>) >>) >>

(* the most stubs an overload family of the model has *)
MaxStubs == 2

Decorators ==
    {NameDecorator("overload"), AttributeDecorator("typing", "overload"),
     NameDecorator("staticmethod")}

(* n decorated stubs sharing a name, then the undecorated implementation;
   the imports take lines 1-2, a stub a decorator line and a def line *)
OverloadTree(n, decorator, docstring) ==
    [i \in 1..n |->
        FunctionDef("example_function", 2 + 2 * i, << decorator >>,
                    << Arg("x", "int") >>, NoDocstring, << >>)]
    \o << FunctionDef("example_function", 3 + 2 * n, << >>,
                      << Arg("x", "Union[int, str]") >>, docstring, << >>) >>

OverloadTrees ==
    {OverloadTree(n, dec, d) :
        n \in 1..MaxStubs, dec \in Decorators, d \in {NoDocstring, DocOverloadImpl}}

HeaderTrees == {UnitTree("function", "thing", NoArgs, d) : d \in HeaderDocstrings}

(* the most entries a list section of the entry docstrings has *)
MaxEntries == 3

(* the entries of the tests of list_name_and_type sections: without a type
   (the specification's example, test_77, test_78) and with one *)
NameAndTypeLines ==
    {"    x: no type",
     "    x (int): has type",
     "    simple_param_name: This should trigger parentheses validation error",
     "    x: Parameter without parentheses - should error"}

(* the entries of the tests of list_type sections: with a type, without one
   (test_83, test_82), and a deeper line of description with a colon *)
TypeLines ==
    {"    (ValueError): When something goes wrong.",
     "    BadFormatError: This is malformed - no parentheses.",
     "    TypeCheckError: This should trigger an error because type is not parenthesized.",
     "        If any of the inputs are not the correct type: see typeguard."}

(* the bodies of one to MaxEntries lines taken from the given lines *)
Bodies(entries) == UNION {[1..n -> entries] : n \in 1..MaxEntries}

(* a docstring of one summary line and one section *)
EntryDoc(header, body) == Docstring(<< "Test function.", "", header >> \o body)

EntryDocstrings ==
    {EntryDoc(h, b) : h \in {"Parameters:", "Args:"}, b \in Bodies(NameAndTypeLines)}
    \cup {EntryDoc("Raises:", b) : b \in Bodies(TypeLines)}

EntryTrees == {UnitTree("function", "test_function", NoArgs, d) : d \in EntryDocstrings}

(* the Params sections of the parameter type tests: name with the type of
   the signature, in another case, with another type, or not documented;
   age likewise *)
ParamBodies ==
    {n \o a :
        n \in {<< >>, << "    name (str): The name parameter." >>,
                << "    name (Str): The name parameter." >>,
                << "    name (int): The name parameter - WRONG TYPE." >>},
        a \in {<< >>, << "    age (int): The age parameter." >>,
                << "    age (str): The age parameter - WRONG TYPE." >>}}

(* example_function(name, age) with and without annotations *)
TypedArgs ==
    {<< Arg("name", n), Arg("age", a) >> : n \in {"", "str"}, a \in {"", "int"}}

(* the functions and the methods (with self) of the parameter type tests *)
ParamTrees ==
    {UnitTree(k, "example_function", args,
              Docstring(<< "Example function with parameters.", "", "Params:" >> \o b)) :
        k \in {"function", "method"}, args \in TypedArgs, b \in ParamBodies}

(* test_direct_extract_param_types_with_section_break: a Params section
   and a Returns section after it *)
DocSectionBreak ==
    Docstring(<< "Calculate value.", "",
                 "Params:", "    x (int): First value.", "    y (int): Second value.", "",
                 "Returns:", "    (int): Sum of values." >>)

(* the same with the second entry, of another type, under Returns *)
DocEntryAfterBreak ==
    Docstring(<< "Calculate value.", "",
                 "Params:", "    x (int): First value.", "",
                 "Returns:", "    y (str): Second value." >>)

(* test_direct_extract_param_types_no_params_section *)
DocNoParamsSection ==
    Docstring(<< "Process data.", "", "Returns:", "    (str): Result." >>)

SectionBreakTrees ==
    {UnitTree(k, "calculate", << Arg("x", "int"), Arg("y", "int") >>, d) :
        k \in {"function", "method"},
        d \in {DocSectionBreak, DocEntryAfterBreak, DocNoParamsSection}}

(* test_37 and test_75: docstrings of one line; and one-line docstrings that
   are a structured-form header, of a section that is not configured and of
   the summary section in lower case *)
OneLineDocstrings ==
    {Docstring(<< line >>) :
        line \in {"This is a simple docstring that should be accepted as summary.",
                  "This is a simple docstring without formal formatting.",
                  "Notes:", "summary:"}}

OneLineTrees ==
    {UnitTree(k, "test_function", NoArgs, d) :
        k \in {"function", "method", "class"}, d \in OneLineDocstrings}

(* test_59: entries written `name type:`, each with a deeper line *)
DocTwoWordEntries ==
    Docstring(<< "Summary:", "    Function summary.", "",
                 "Params:", "    param1 str:", "        Should be param1 (str):",
                 "    param2 int:", "        Should be param2 (int):", "",
                 "Returns:", "    result bool:", "        Should be result (bool):" >>)

(* test_76: lines of description with prose words, then an entry without
   its type *)
DocDescriptionWords ==
    Docstring(<< "Summary:", "    Test function.", "",
                 "Params:", "    param1 (str): Main parameter",
                 "    Default: some default value here",
                 "    Output format: JSON format description",
                 "    Show examples: whether to show examples",
                 "    param2: Missing parenthesized type (should trigger error)" >>)

(* test_81: entries named by a prose word, then an entry without its type *)
DocContinueWords ==
    Docstring(<< "Test function for hitting continue statement.", "",
                 "Params:", "    default: Should be skipped due to continue word in name",
                 "    output: Should be skipped due to continue word in name",
                 "    normal_param: Should trigger parentheses error" >>)

(* test_84: the deeper lines of a description, with colons (the first
   parameter) *)
DocDescriptionColons ==
    Docstring(<< "Summary of the function.", "",
                 "Params:", "    columnwise (bool, optional):",
                 "        Whether or not to print columnwise or rowwise.", "",
                 "        - ~True~: Will be formatted column-wise.",
                 "        - ~False~: Will be formatted row-wise.", "",
                 "        Defaults to: ~True~." >>)

(* test_86: a deeper line with many words before its colon *)
DocDeeperManyWords ==
    Docstring(<< "Summary of the function.", "",
                 "Params:", "    param_name (str):",
                 "        This description line has multiple words before colon: should be skipped." >>)

(* test_87: a line at the indentation of the entries with many words
   before its colon *)
DocSameLevelManyWords ==
    Docstring(<< "Summary of the function.", "",
                 "Params:", "    param_name (str):", "        Description line.",
                 "    multiple words here should be skipped: this has too many words." >>)

(* test_82, first case: a deeper line of description with a colon in a
   list_type section (the description shortened) *)
DocRaisesDescription ==
    Docstring(<< "Test function for raises validation.", "",
                 "Raises:", "    (TypeCheckError):",
                 "        If any of the inputs are not the correct type: see typeguard." >>)

(* test_83 with a line of test_76 between its two entries: a prose word in
   a list_type section *)
DocRaisesWords ==
    Docstring(<< "Summary of the function.", "",
                 "Raises:", "    (ValueError): When something goes wrong.",
                 "    Default: some default value here",
                 "    BadFormatError: This is malformed - no parentheses." >>)

(* the docstrings of the tests of the skipped lines of list sections *)
SkippedLineDocstrings ==
    {DocTwoWordEntries, DocDescriptionWords, DocContinueWords, DocDescriptionColons,
     DocDeeperManyWords, DocSameLevelManyWords, DocRaisesDescription, DocRaisesWords}

SkippedLineTrees ==
    {UnitTree("function", "test_function", NoArgs, d) : d \in SkippedLineDocstrings}

UnitTrees ==
    PublicUnitTrees \cup PrivateUnitTrees \cup OverloadTrees \cup HeaderTrees
        \cup OneLineTrees \cup SkippedLineTrees
        \cup {MissingDocstringsTree, GoodDocstringsTree, NestedClassesTree}

(* a file system holding one module *)
UnitFileSystem(tree) == [p \in {"unit.py"} |-> SourceFile(tree)]

UnitFileSystems == {UnitFileSystem(tree) : tree \in UnitTrees}

(* a project: a package with a sub-package, a text file and a documented
   module, and any of five more modules: undocumented (three places),
   unparseable, undecodable *)
GoodTree == UnitTree("function", "good_function", NoArgs, DocOneLine)

BadTree == UnitTree("function", "bad_function", NoArgs, NoDocstring)

ProjectModules ==
    {"pkg/bad.py", "pkg/test_bad.py", "pkg/sub/nested.py", "pkg/broken.py",
     "pkg/latin.py"}

ProjectEntry(p) ==
    CASE p \in {"pkg", "pkg/sub"} -> Directory
      [] p = "pkg/good.py" -> SourceFile(GoodTree)
      [] p = "pkg/broken.py" -> SyntaxErrorFile
      [] p = "pkg/latin.py" -> UndecodableFile
      [] OTHER -> SourceFile(BadTree)

ProjectFileSystem(modules) ==
    [p \in {"pkg", "pkg/sub", "pkg/notes.txt", "pkg/good.py"} \cup modules |->
        ProjectEntry(p)]

ProjectFileSystems == {ProjectFileSystem(modules) : modules \in SUBSET ProjectModules}

ProjectConfigs ==
    {Config(GlobalConfig(FALSE, r, FALSE, FALSE), SimpleSections) : r \in BOOLEAN}

ExcludePatternLists == {<< >>, << "test_*.py" >>, << "*nested.py", "b*.py" >>}

-----------------------------------------------------------------------------
(* The calls of the public interface and what they give back.               *)

NoCall ==
    [op |-> "", path |-> "", exclude_patterns |-> << >>, recursive |-> FALSE,
     defaults |-> FALSE, raised |-> "", message |-> "", errors |-> << >>,
     results |-> NoResults]

(* a faulty variant of CheckFile: the checker keeps the errors of its last
   call and hands them back with those of the next call on the same file *)
CheckFileAccumulating(path) ==
    /\ outcome' =
           LET Call(res) ==
                   [op |-> "check_file", path |-> path, exclude_patterns |-> << >>,
                    recursive |-> FALSE, defaults |-> FALSE, raised |-> res.raised,
                    message |-> res.message,
                    errors |-> IF /\ outcome.op = "check_file"
                                  /\ outcome.path = path
                                  /\ outcome.errors = res.errors
                               THEN res.errors \o res.errors
                               ELSE res.errors,
                    results |-> NoResults]
           IN  Call(check_file(config, fs, path))
    /\ UNCHANGED <<config, fs>>

(* checker.check_file(path): the error list, or the exception raised *)
CheckFile(path) ==
    /\ outcome' =
           LET Call(res) ==
                   [op |-> "check_file", path |-> path, exclude_patterns |-> << >>,
                    recursive |-> FALSE, defaults |-> FALSE, raised |-> res.raised,
                    message |-> res.message, errors |-> res.errors, results |-> NoResults]
           IN  Call(check_file(config, fs, path))
    /\ UNCHANGED <<config, fs>>

(* what a call of check_directory gives back: the mapping, or the exception
   raised; defaults tells that the caller passed the path alone *)
DirectoryOutcome(path, exclude_patterns, recursive, defaults) ==
    LET Call(res) ==
            [op |-> "check_directory", path |-> path,
             exclude_patterns |-> exclude_patterns, recursive |-> recursive,
             defaults |-> defaults, raised |-> res.raised, message |-> res.message,
             errors |-> << >>, results |-> res.results]
    IN  Call(check_directory(config, fs, path, exclude_patterns, recursive))

(* checker.check_directory(path, exclude_patterns=..., recursive=...) *)
CheckDirectory(path, exclude_patterns, recursive) ==
    /\ outcome' = DirectoryOutcome(path, exclude_patterns, recursive, FALSE)
    /\ UNCHANGED <<config, fs>>

(* checker.check_directory(path): no exclude patterns, recursive scan *)
CheckDirectoryByDefault(path) ==
    /\ outcome' = DirectoryOutcome(path, << >>, TRUE, TRUE)
    /\ UNCHANGED <<config, fs>>

(* the paths a caller passes: every path of the file system and one absent *)
Paths == DOMAIN fs \cup {"pkg/missing.py"}

(* a project under the test suite's simple checker, every call *)
Init ==
    /\ config \in ProjectConfigs
    /\ fs \in ProjectFileSystems
    /\ outcome = NoCall

Next ==
    \/ \E path \in Paths : CheckFile(path)
    \/ \E path \in Paths, exclude_patterns \in ExcludePatternLists, recursive \in BOOLEAN :
           CheckDirectory(path, exclude_patterns, recursive)
    \/ \E path \in Paths : CheckDirectoryByDefault(path)

Spec == Init /\ [][Next]_vars

(* one module under every configuration, checked alone *)
UnitInit ==
    /\ config \in Configs
    /\ fs \in UnitFileSystems
    /\ outcome = NoCall

UnitNext == \E path \in DOMAIN fs : CheckFile(path)

UnitSpec == UnitInit /\ [][UnitNext]_vars

(* a checker of the entry tests or of the parameter type tests and one
   file, then check_file *)
EntryInit ==
    /\ config \in EntryConfigs
    /\ fs \in {UnitFileSystem(tree) :
                  tree \in EntryTrees \cup ParamTrees \cup SectionBreakTrees}
    /\ outcome = NoCall

EntrySpec == EntryInit /\ [][UnitNext]_vars

(* the most sections the list under construction holds *)
MaxSections == 2

(* the arguments of the constructor in the tests of the configuration:
   test_51 to test_54, and test_05 of test_config.py for the type *)
SectionNames == {"summary", "params"}

SectionTypeArguments == {"free_text", "list_name_and_type", "invalid_type"}

AdmonitionArguments == {NoAdmonition, AdmonitionTrue, Admonition("note")}

PrefixArguments == {"", "!!!"}

(* no section has been asked for *)
NoConstruction ==
    [op |-> "", section |-> SectionConfig(0, "", "", FALSE, NoAdmonition, ""),
     raised |-> "", message |-> ""]

(* SectionConfig(order=..., name=..., type=..., admonition=..., prefix=...):
   the section joins the list when no exception is raised *)
NewSectionConfig(name, type, admonition, prefix) ==
    /\ Len(config.sections) < MaxSections
    /\ LET Call(section, res) ==
               /\ outcome' = [op |-> "SectionConfig", section |-> section,
                              raised |-> res.raised, message |-> res.message]
               /\ config' = IF res.raised = ""
                            THEN [config EXCEPT !.sections = Append(@, section)]
                            ELSE config
           Make(section) == Call(section, __post_init__(section))
       IN  Make(SectionConfig(Len(config.sections) + 1, name, type, FALSE, admonition, prefix))
    /\ UNCHANGED fs

(* a list of sections built one constructor call at a time *)
ConfigInit ==
    /\ config = Config(GlobalConfig(FALSE, TRUE, FALSE, FALSE), << >>)
    /\ fs = UnitFileSystem(GoodTree)
    /\ outcome = NoConstruction

ConfigNext ==
    \E name \in SectionNames, type \in SectionTypeArguments,
       admonition \in AdmonitionArguments, prefix \in PrefixArguments :
        NewSectionConfig(name, type, admonition, prefix)

ConfigSpec == ConfigInit /\ [][ConfigNext]_vars

-----------------------------------------------------------------------------
(* The vocabulary of the properties.                                        *)

RECURSIVE DefinitionsIn(_, _)
(* every definition of a tree with the kind it is reported as, skipped or not *)
DefinitionsIn(nodes, in_class) ==
    IF nodes = << >> THEN {}
    ELSE LET node == Head(nodes)
             kind == IF node.type = "ClassDef" THEN "class"
                     ELSE IF in_class THEN "method" ELSE "function"
         IN  {[kind |-> kind, node |-> node]}
                 \cup DefinitionsIn(node.body, in_class \/ node.type = "ClassDef")
                 \cup DefinitionsIn(Tail(nodes), in_class)

(* check_file returned the error list of a parsed module *)
FileChecked == outcome.op = "check_file" /\ outcome.raised = ""

(* the definitions of the module check_file was called on *)
CheckedDefinitions ==
    IF FileChecked THEN DefinitionsIn(fs[outcome.path].tree, FALSE) ELSE {}

(* the returned errors anchored to a definition: its name and its line *)
ErrorsFor(d) ==
    SelectSeq(outcome.errors,
              LAMBDA e : e.item_name = d.node.name /\ e.line_number = d.node.lineno)

(* the message reported for a definition, "" when it has no error *)
MessageFor(d) == IF ErrorsFor(d) = << >> THEN "" ELSE ErrorsFor(d)[1].message

IsPrivate(d) == StartsWith(d.node.name, "_")

(* decorated as an overload stub, by `overload` or `<module>.overload` *)
IsStub(node) ==
    \E i \in DOMAIN node.decorator_list :
        node.decorator_list[i] \in
            {NameDecorator("overload"), AttributeDecorator("typing", "overload")}

(* checkable: neither skipped for its private name nor an overload stub *)
IsCheckable(d) ==
    /\ config.global_config.check_private \/ ~IsPrivate(d)
    /\ d.kind = "class" \/ ~IsStub(d.node)

MissingDocstringMessage(d) ==
    "Missing docstring for " \o d.kind \o " '" \o d.node.name \o "'"

-----------------------------------------------------------------------------
(* C1: as claimed, every checkable definition without a docstring,
   classes included, gets exactly one error whose whole message is
   "Missing docstring for <kind> '<name>'" when require_docstrings is set.
   The checker does not do that for a class. *)
C1_AsClaimed ==
    config.global_config.require_docstrings =>
        \A d \in CheckedDefinitions :
            IsCheckable(d) /\ d.node.docstring.none =>
                /\ Len(ErrorsFor(d)) = 1
                /\ MessageFor(d) = MissingDocstringMessage(d)

(* C1: with require_docstrings set, every checkable function or method
   without a docstring gets exactly one error whose whole message is
   "Missing docstring for <kind> '<name>'", no other violation joined to
   it; a class without a docstring gets no error. *)
C1_MissingDocstring ==
    config.global_config.require_docstrings =>
        \A d \in CheckedDefinitions :
            IsCheckable(d) /\ d.node.docstring.none =>
                IF d.kind = "class"
                THEN ErrorsFor(d) = << >>
                ELSE /\ Len(ErrorsFor(d)) = 1
                     /\ MessageFor(d) = MissingDocstringMessage(d)
                     /\ ErrorsFor(d)[1].item_type = d.kind

(* the module of test_02 checked: the function and the method are reported,
   the class is not *)
C1_Witness ==
    /\ FileChecked
    /\ config.global_config.require_docstrings
    /\ fs[outcome.path].tree = MissingDocstringsTree
    /\ Len(outcome.errors) = 2
    /\ outcome.errors[1].message = "Missing docstring for function 'bad_function'"
    /\ outcome.errors[2].message = "Missing docstring for method 'bad_method'"

(* C2: with require_docstrings unset, no definition without a docstring
   has an error, under every section list and every value of the other
   flags. *)
C2_NoDocstringNotRequired ==
    ~config.global_config.require_docstrings =>
        \A d \in CheckedDefinitions :
            d.node.docstring.none => ErrorsFor(d) = << >>

C2_Witness ==
    /\ FileChecked
    /\ ~config.global_config.require_docstrings
    /\ config.global_config.check_private
    /\ config.sections = AllTypesSections
    /\ fs[outcome.path].tree = MissingDocstringsTree
    /\ outcome.errors = << >>

(* the error record a definition must get for the given violations *)
AnchoredTo(e, d) ==
    /\ e.item_name = d.node.name
    /\ e.line_number = d.node.lineno
    /\ e.item_type = d.kind
    /\ e.file_path = outcome.path

(* the docstring has a header of no configured section *)
HasUndefinedHeader(d) ==
    LET hs == Headers(d.node.docstring.lines)
    IN  \E k \in DOMAIN hs : SectionIndexOf(config.sections, hs[k]) = 0

(* the required list sections, params aside, that the docstring has no header of *)
AbsentRequiredLists(d) ==
    LET hs == Headers(d.node.docstring.lines)
    IN  {n \in DOMAIN config.sections :
            /\ config.sections[n].required
            /\ config.sections[n].type # "free_text"
            /\ Lower(config.sections[n].name) # "params"
            /\ HeadersNamed(hs, config.sections[n].name) = {}}

(* C3: check_file returns at most one record per checkable definition and
   none for anything else; the record's message is every violation of the
   definition joined by "; ", none suppressing another, and a definition
   without violations has no record. *)
C3_OneErrorPerDefinition ==
    FileChecked =>
        /\ \A i \in DOMAIN outcome.errors :
               \E d \in CheckedDefinitions :
                   IsCheckable(d) /\ AnchoredTo(outcome.errors[i], d)
        /\ \A d \in CheckedDefinitions :
               LET violations == Violations(config, Item(d.kind, d.node))
               IN  IF IsCheckable(d) /\ violations # << >>
                   THEN /\ Len(ErrorsFor(d)) = 1
                        /\ MessageFor(d) = Join(violations, "; ")
                        /\ CountOf(MessageFor(d), "; ") = Len(violations) - 1
                   ELSE ErrorsFor(d) = << >>
        /\ \A d \in CheckedDefinitions :
               /\ IsCheckable(d) /\ d.kind # "class" /\ ~d.node.docstring.none
               /\ ~config.global_config.allow_undefined_sections
               /\ HasUndefinedHeader(d)
               /\ AbsentRequiredLists(d) # {}
               => /\ Contains(MessageFor(d), "not defined in configuration")
                  /\ \A n \in AbsentRequiredLists(d) :
                         Contains(MessageFor(d), "Missing required section: "
                                                     \o Title(config.sections[n].name))

(* one record carrying three violations: an undefined section, a section
   out of order and a missing required section *)
C3_Witness ==
    /\ FileChecked
    /\ Len(outcome.errors) = 1
    /\ CountOf(outcome.errors[1].message, "; ") >= 2
    /\ Contains(outcome.errors[1].message,
                "Section 'references' found in docstring but not defined in configuration")
    /\ Contains(outcome.errors[1].message, "Section 'params' is out of order")
    /\ Contains(outcome.errors[1].message, "Missing required section: Raises")

(* stubs decorated as overloads, sharing the name of the one undecorated
   definition that follows them *)
IsOverloadFamily(tree) ==
    /\ Len(tree) >= 2
    /\ tree[Len(tree)].decorator_list = << >>
    /\ \A i \in 1..(Len(tree) - 1) :
           /\ tree[i].type # "ClassDef"
           /\ IsStub(tree[i])
           /\ tree[i].name = tree[Len(tree)].name
           /\ tree[i].lineno < tree[Len(tree)].lineno

(* C4: of an overload family only the implementation is checked: every
   record is anchored to the implementation's line, never a stub's; the
   implementation documented as test_39 documents it has no error under
   the simple checker, and an undocumented one has exactly one error, the
   missing docstring, when docstrings are required. *)
C4_OverloadFamily ==
    FileChecked /\ IsOverloadFamily(fs[outcome.path].tree) =>
        LET tree == fs[outcome.path].tree
            impl == tree[Len(tree)]
        IN  /\ Len(outcome.errors) <= 1
            /\ \A i \in DOMAIN outcome.errors :
                   /\ outcome.errors[i].line_number = impl.lineno
                   /\ \A k \in 1..(Len(tree) - 1) :
                          outcome.errors[i].line_number # tree[k].lineno
            /\ impl.docstring = DocOverloadImpl /\ config.sections = SimpleSections
                   => outcome.errors = << >>
            /\ impl.docstring.none /\ config.global_config.require_docstrings
                   => /\ Len(outcome.errors) = 1
                      /\ outcome.errors[1].message =
                             "Missing docstring for function '" \o impl.name \o "'"

(* two stubs decorated with typing.overload, the implementation
   undocumented: the one error is on the implementation's line *)
C4_Witness ==
    /\ FileChecked
    /\ fs[outcome.path].tree =
           OverloadTree(2, AttributeDecorator("typing", "overload"), NoDocstring)
    /\ Len(outcome.errors) = 1
    /\ outcome.errors[1].line_number = 7
    /\ outcome.errors[1].item_name = "example_function"

(* C5: a definition whose name starts with "_" has no error when
   check_private is unset; when it is set the definition is checked like a
   public one: a missing docstring is reported, and so is a section of its
   docstring that the configuration does not define. *)
C5_PrivateNames ==
    \A d \in CheckedDefinitions :
        IsPrivate(d) =>
            IF ~config.global_config.check_private
            THEN ErrorsFor(d) = << >>
            ELSE /\ /\ d.node.docstring.none
                    /\ config.global_config.require_docstrings
                    /\ d.kind # "class"
                    => /\ Len(ErrorsFor(d)) = 1
                       /\ MessageFor(d) = MissingDocstringMessage(d)
                 /\ /\ ~d.node.docstring.none
                    /\ ~config.global_config.allow_undefined_sections
                    /\ HasUndefinedHeader(d)
                    => /\ Len(ErrorsFor(d)) = 1
                       /\ Contains(MessageFor(d), "not defined in configuration")

(* a dunder method without a docstring, reported under check_private *)
C5_Witness ==
    /\ FileChecked
    /\ config.global_config.check_private
    /\ Len(outcome.errors) = 1
    /\ outcome.errors[1].message = "Missing docstring for method '__thing__'"

-----------------------------------------------------------------------------
(* The properties of the directory scan.                                    *)

DirectoryScanned == outcome.op = "check_directory" /\ outcome.raised = ""

(* whether a path lies under the scanned directory, at any depth *)
IsUnder(p, directory_path) == StartsWith(p, directory_path \o "/")

(* the Python files of the scan: under the directory, directly so when the
   scan is not recursive *)
ScannedFiles ==
    {p \in DOMAIN fs :
        /\ fs[p].kind = "file"
        /\ IsUnder(p, outcome.path)
        /\ EndsWith(p, ".py")
        /\ outcome.recursive \/ ~Contains(Drop(p, Len(outcome.path) + 1), "/")}

(* the file cannot be decoded or cannot be parsed *)
IsUnreadable(p) == ~fs[p].decodes \/ ~fs[p].parses

(* the file name or the path below the directory matches an exclude pattern
   of the call; the patterns of the model match both or neither *)
IsExcluded(p) ==
    \E i \in DOMAIN outcome.exclude_patterns :
        FnMatch(Drop(p, Len(outcome.path) + 1), outcome.exclude_patterns[i])

(* the file has a definition that is reported under the configuration: an
   undocumented function, docstrings being required *)
HasReportedDefinition(p) ==
    /\ ~IsUnreadable(p)
    /\ config.global_config.require_docstrings
    /\ \E d \in DefinitionsIn(fs[p].tree, FALSE) :
           d.kind # "class" /\ d.node.docstring.none /\ ~IsPrivate(d)

(* C6: check_file lets a decode or a syntax failure escape as an exception;
   check_directory turns the failure of a file into exactly one file-level
   error with line_number 0 under that file's key, and still checks every
   other file of the scan. *)
C6_FailureIsolation ==
    /\ /\ outcome.op = "check_file"
       /\ outcome.path \in DOMAIN fs
       /\ fs[outcome.path].kind = "file"
       /\ EndsWith(outcome.path, ".py")
       /\ IsUnreadable(outcome.path)
       => /\ outcome.raised = (IF ~fs[outcome.path].decodes THEN "ValueError"
                               ELSE "SyntaxError")
          /\ outcome.errors = << >>
    /\ DirectoryScanned =>
           \A p \in ScannedFiles :
               ~IsExcluded(p) =>
                   /\ IsUnreadable(p) =>
                          /\ p \in DOMAIN outcome.results
                          /\ Len(outcome.results[p]) = 1
                          /\ outcome.results[p][1].line_number = 0
                          /\ outcome.results[p][1].file_path = p
                   /\ HasReportedDefinition(p) =>
                          /\ p \in DOMAIN outcome.results
                          /\ \A i \in DOMAIN outcome.results[p] :
                                 outcome.results[p][i].line_number > 0

(* a scan that met an unparseable and an undecodable file and still
   reported the undocumented module next to them *)
C6_Witness ==
    /\ DirectoryScanned
    /\ outcome.path = "pkg"
    /\ {"pkg/broken.py", "pkg/latin.py", "pkg/bad.py"} \subseteq DOMAIN outcome.results
    /\ outcome.results["pkg/broken.py"][1].line_number = 0
    /\ outcome.results["pkg/latin.py"][1].line_number = 0
    /\ outcome.results["pkg/bad.py"][1].line_number = 1

(* C7: check_file raises FileNotFoundError for an absent path,
   InvalidFileError for a path that is no Python file and ValueError
   "Cannot decode file" for bytes that are not UTF-8; check_directory
   raises FileNotFoundError for an absent path and DirectoryNotFoundError
   for a file; none of these calls returns a list or a mapping. *)
C7_AccessFailuresRaise ==
    /\ outcome.op = "check_file" =>
           /\ outcome.path \notin DOMAIN fs => outcome.raised = "FileNotFoundError"
           /\ outcome.path \in DOMAIN fs /\ ~EndsWith(outcome.path, ".py")
                  => outcome.raised = "InvalidFileError"
           /\ /\ outcome.path \in DOMAIN fs
              /\ EndsWith(outcome.path, ".py")
              /\ ~fs[outcome.path].decodes
              => /\ outcome.raised = "ValueError"
                 /\ Contains(outcome.message, "Cannot decode file")
    /\ outcome.op = "check_directory" =>
           /\ outcome.path \notin DOMAIN fs => outcome.raised = "FileNotFoundError"
           /\ outcome.path \in DOMAIN fs /\ fs[outcome.path].kind = "file"
                  => outcome.raised = "DirectoryNotFoundError"
    /\ outcome.raised # "" => outcome.errors = << >> /\ outcome.results = NoResults

(* check_file on the undecodable module *)
C7_Witness ==
    /\ outcome.op = "check_file"
    /\ outcome.path = "pkg/latin.py"
    /\ outcome.raised = "ValueError"
    /\ outcome.message = "Cannot decode file pkg/latin.py"

(* C8: the keys of the mapping check_directory returns are exactly the
   scanned Python files (every depth when recursive, which is the default)
   that match no exclude pattern and have at least one error; no key maps
   to an empty list. *)
C8_DirectoryMapping ==
    DirectoryScanned =>
        /\ DOMAIN outcome.results =
               {p \in ScannedFiles :
                   ~IsExcluded(p) /\ (IsUnreadable(p) \/ HasReportedDefinition(p))}
        /\ \A p \in DOMAIN outcome.results : outcome.results[p] # << >>
        /\ "pkg/good.py" \notin DOMAIN outcome.results
        /\ outcome.defaults /\ outcome.path = "pkg"
               => \A p \in DOMAIN fs :
                      IsUnder(p, "pkg/sub") /\ HasReportedDefinition(p)
                          => p \in DOMAIN outcome.results

(* the scan of test_06: test_*.py excluded, the documented module without
   errors, the undocumented modules the only keys *)
C8_Witness ==
    /\ DirectoryScanned
    /\ outcome.path = "pkg"
    /\ outcome.exclude_patterns = << "test_*.py" >>
    /\ "pkg/test_bad.py" \in DOMAIN fs
    /\ DOMAIN outcome.results = {"pkg/bad.py", "pkg/sub/nested.py"}

-----------------------------------------------------------------------------
(* The properties of the ordering and the required-presence checks.         *)

(* where the violations of a message start: after each "; ", and at its head *)
ViolationStarts(message) ==
    IF message = "" THEN {}
    ELSE {1} \cup {i + 2 : i \in {j \in 1..(Len(message) - 1) :
                                     SubSeq(message, j, j + 1) = "; "}}

(* the violation of a message that starts at a *)
ViolationAt(message, a) ==
    LET later == {b \in ViolationStarts(message) : b > a}
    IN  SubSeq(message, a,
               IF later = {} THEN Len(message)
               ELSE (CHOOSE b \in later : \A c \in later : b <= c) - 3)

(* the violations of a definition that speak of the order of sections *)
OrderViolations(d) ==
    {a \in ViolationStarts(MessageFor(d)) :
        Contains(ViolationAt(MessageFor(d), a), "out of order")}

(* the configuration declares the section under the order *)
Declares(name, order) ==
    \E n \in DOMAIN config.sections :
        Lower(config.sections[n].name) = name /\ config.sections[n].order = order

(* the checkable definitions that have a docstring *)
DocumentedDefinitions ==
    {d \in CheckedDefinitions : IsCheckable(d) /\ ~d.node.docstring.none}

(* the configured sections the headers of the docstring name, in line order *)
FoundIn(d) == FoundSections(config.sections, Headers(d.node.docstring.lines))

(* the section has a detected header with a non-empty body in the docstring *)
HasBody(d, section) ==
    LET lines == d.node.docstring.lines
        hs == Headers(lines)
    IN  \E k \in HeadersNamed(hs, section.name) : HasContent(lines, hs, k)

(* C9: under sections ordered summary 1, params 2, returns 3, a docstring
   whose populated Returns header comes before its populated Params header
   has exactly one "out of order" violation, which names params; a docstring
   whose detected headers come in non-decreasing order has none. *)
C9_Ordering ==
    \A d \in DocumentedDefinitions :
        LET found == FoundIn(d)
            named == [k \in DOMAIN found |-> Lower(config.sections[found[k]].name)]
        IN  /\ (\A k \in 2..Len(found) :
                    config.sections[found[k - 1]].order <= config.sections[found[k]].order)
                   => OrderViolations(d) = {}
            /\ /\ Declares("summary", 1) /\ Declares("params", 2) /\ Declares("returns", 3)
               /\ named = << "returns", "params" >>
               /\ HasBody(d, config.sections[found[1]])
               /\ HasBody(d, config.sections[found[2]])
               => /\ Cardinality(OrderViolations(d)) = 1
                  /\ \A a \in OrderViolations(d) :
                         /\ Contains(ViolationAt(MessageFor(d), a), "params")
                         /\ ~Contains(ViolationAt(MessageFor(d), a), "returns")

(* the docstring of test_25 under the checker of test_25 *)
C9_Witness ==
    /\ FileChecked
    /\ config.sections = OrderedSections
    /\ \E d \in DocumentedDefinitions :
           /\ d.node.docstring = DocBadOrder
           /\ Cardinality(OrderViolations(d)) = 1

(* the violations of a definition, as a set *)
ViolationsOf(d) ==
    {ViolationAt(MessageFor(d), a) : a \in ViolationStarts(MessageFor(d))}

MissingSection(section) == "Missing required section: " \o Title(section.name)

RequiredSections == {n \in DOMAIN config.sections : config.sections[n].required}

(* C10: as claimed, every required section, whatever its type, that has no
   detected non-empty body in a docstring is reported as missing.  The
   checker does not demand a params section of a definition without
   parameters, and does not look for a header of a free text section. *)
C10_AsClaimed ==
    \A d \in DocumentedDefinitions :
        \A n \in RequiredSections :
            ~HasBody(d, config.sections[n])
                => MissingSection(config.sections[n]) \in ViolationsOf(d)

HasParameters(d) ==
    \E i \in DOMAIN d.node.args : d.node.args[i].arg \notin {"self", "cls"}

(* the docstring has the admonition header the section is configured with *)
HasAdmonitionOf(d, section) ==
    \E i \in DOMAIN d.node.docstring.lines :
        LET m == MatchAdmonition(d.node.docstring.lines[i])
        IN  /\ m.ok
            /\ m.prefix = section.prefix
            /\ Lower(m.directive) = Lower(section.admonition.text)
            /\ Contains(Lower(m.title), Lower(section.name))

(* C10: of a function or method with a docstring, a required list section
   is reported as "Missing required section: <Name>" exactly when it has no
   detected non-empty body, except that params is never demanded of a
   definition without parameters, nor of a class; a required free text
   section is reported exactly when it is configured with an admonition
   whose header the docstring lacks: a plain summary is met by any
   docstring, a plain section of another name always. *)
C10_RequiredPresence ==
    \A d \in DocumentedDefinitions :
        \A n \in RequiredSections :
            LET section == config.sections[n]
                missing == MissingSection(section) \in ViolationsOf(d)
            IN  IF section.type = "free_text"
                THEN IF section.admonition.is_str
                     THEN d.kind # "class" => (missing <=> ~HasAdmonitionOf(d, section))
                     ELSE Lower(section.name) \notin {"examples", "example"} => ~missing
                ELSE IF Lower(section.name) = "params" /\ (d.kind = "class" \/ ~HasParameters(d))
                THEN ~missing
                ELSE d.kind # "class" => (missing <=> ~HasBody(d, section))

(* test_89: the required list_name section Parameters is reported missing *)
C10_Witness ==
    /\ FileChecked
    /\ config.sections = ListNameSections
    /\ \E d \in DocumentedDefinitions :
           /\ d.node.docstring = DocNumpyReturns
           /\ ViolationsOf(d) = {"Missing required section: Parameters"}

-----------------------------------------------------------------------------
(* The properties of header detection and of the undefined-section policy.  *)

(* whether line i lies between an opening fence line and the closing one
   that matches it: an odd number of fence lines come before it *)
InFence(lines, i) ==
    /\ ~IsFenceLine(lines[i])
    /\ Cardinality({j \in 1..(i - 1) : IsFenceLine(lines[j])}) % 2 = 1

(* a line shaped like a header: an admonition line with a quoted title, or
   a line without indentation that ends with a colon *)
IsAdmonitionShaped(line) == MatchAdmonition(line).ok

IsStructuredShaped(line) ==
    /\ ~IsAdmonitionShaped(line)
    /\ IndentOf(line) = 0
    /\ EndsWith(RStrip(line), ":")

IsHeaderShaped(line) == IsAdmonitionShaped(line) \/ IsStructuredShaped(line)

(* the label of a header-shaped line: the quoted title, or the text before
   the closing colon *)
LabelOf(line) ==
    IF IsAdmonitionShaped(line) THEN MatchAdmonition(line).title
    ELSE SubSeq(RStrip(line), 1, Len(RStrip(line)) - 1)

(* the name a label is reported and compared by *)
KeyOf(line) == RStripColon(Strip(Lower(LabelOf(line))))

(* a label that is code or a path rather than a section name, or no label *)
IsCodeLikeLabel(line) ==
    \/ \E c \in {".", "/", "\\", Backquote} : Contains(LabelOf(line), c)
    \/ KeyOf(line) \in {"py", "python", "sh", "shell"}
    \/ KeyOf(line) = ""

(* an ordinary label: outside every fence, not code-like, and, in the
   structured form, one word *)
OrdinaryLabelLines(lines) ==
    {i \in DOMAIN lines :
        /\ IsHeaderShaped(lines[i])
        /\ ~InFence(lines, i)
        /\ ~IsCodeLikeLabel(lines[i])
        /\ IsStructuredShaped(lines[i]) =>
               TakeWhileWord(LabelOf(lines[i])) = LabelOf(lines[i])}

(* the header-shaped lines that are in a fence or carry a code-like label *)
HiddenLabelLines(lines) ==
    {i \in DOMAIN lines :
        /\ IsHeaderShaped(lines[i])
        /\ InFence(lines, i) \/ IsCodeLikeLabel(lines[i])}

IsConfiguredName(key) ==
    \E n \in DOMAIN config.sections : Lower(config.sections[n].name) = key

UndefinedMessage(key) ==
    "Section '" \o key \o "' found in docstring but not defined in configuration"

(* the violations of a definition that report an undefined section *)
UndefinedViolations(d) ==
    {v \in ViolationsOf(d) : Contains(v, "not defined in configuration")}

(* the names the ordinary labels of a docstring give that no section has *)
UnconfiguredKeys(d) ==
    {KeyOf(d.node.docstring.lines[i]) :
        i \in {j \in OrdinaryLabelLines(d.node.docstring.lines) :
                  ~IsConfiguredName(KeyOf(d.node.docstring.lines[j]))}}

(* C11: every undefined-section violation of a definition names an
   ordinary unconfigured label of a line outside every fence: a label with
   ".", "/", a backslash or a backquote, a bare py, python, sh or shell, an
   empty label, and a label inside a fenced block are never reported, in
   the structured and in the admonition form alike; and where undefined
   sections are not allowed every ordinary unconfigured label outside the
   fences is reported. *)
C11_HiddenLabels ==
    \A d \in DocumentedDefinitions :
        /\ UndefinedViolations(d) \subseteq {UndefinedMessage(k) : k \in UnconfiguredKeys(d)}
        /\ \A i \in HiddenLabelLines(d.node.docstring.lines) :
               KeyOf(d.node.docstring.lines[i]) \notin UnconfiguredKeys(d)
                   => UndefinedMessage(KeyOf(d.node.docstring.lines[i]))
                          \notin ViolationsOf(d)
        /\ ~config.global_config.allow_undefined_sections
               => \A k \in UnconfiguredKeys(d) : UndefinedMessage(k) \in ViolationsOf(d)

(* a docstring with a structured and an admonition label inside a fence, a
   language token and an empty title as admonitions, and one ordinary
   label after them: only the ordinary one is reported *)
C11_Witness ==
    /\ FileChecked
    /\ ~config.global_config.allow_undefined_sections
    /\ config.sections = SummaryOnlySections
    /\ \E d \in DocumentedDefinitions :
           /\ d.node.docstring = DocHiddenLabels
           /\ Cardinality(HiddenLabelLines(d.node.docstring.lines)) = 4
           /\ UndefinedViolations(d) = {UndefinedMessage("visible")}

(* the detected headers of a docstring whose label, lower-cased and without
   its trailing colon, is the lower-cased name of no configured section *)
UndefinedHeaders(d) ==
    {h \in {Headers(d.node.docstring.lines)[k] :
                k \in DOMAIN Headers(d.node.docstring.lines)} :
        ~IsConfiguredName(SectionKey(h.label))}

(* C12: where undefined sections are not allowed, every detected header, in
   the structured or in the admonition form, whose label is the name of no
   configured section when compared without regard to case is reported as
   not defined in the configuration; where they are allowed, no definition
   has such a violation. *)
C12_UndefinedSections ==
    \A d \in DocumentedDefinitions :
        IF config.global_config.allow_undefined_sections
        THEN UndefinedViolations(d) = {}
        ELSE /\ \A h \in UndefinedHeaders(d) :
                    UndefinedMessage(SectionKey(h.label)) \in ViolationsOf(d)
             /\ Cardinality(UndefinedViolations(d))
                    = Cardinality({SectionKey(h.label) : h \in UndefinedHeaders(d)})

(* test_49: References in the admonition form and Notes in the structured
   form are reported, Summary, Params and Returns, which the configuration
   names in lower case, are not *)
C12_Witness ==
    /\ FileChecked
    /\ ~config.global_config.allow_undefined_sections
    /\ config.sections = ColonSections
    /\ \E d \in DocumentedDefinitions :
           /\ d.node.docstring = DocUndefinedSections
           /\ {<< h.form, h.label >> : h \in UndefinedHeaders(d)}
                  = {<< "admonition", "References" >>, << "structured", "Notes" >>}
           /\ UndefinedViolations(d)
                  = {UndefinedMessage("references"), UndefinedMessage("notes")}

-----------------------------------------------------------------------------
(* The properties of the cross-cutting checks of a docstring.               *)

(* the docstring has a header of that name with a non-empty body *)
PresentWithContent(d, name) ==
    \E i \in DOMAIN d.node.docstring.lines :
        /\ ~InFence(d.node.docstring.lines, i)
        /\ IsHeaderShaped(d.node.docstring.lines[i])
        /\ KeyOf(d.node.docstring.lines[i]) = name
        /\ \E j \in (i + 1)..Len(d.node.docstring.lines) :
               /\ Strip(d.node.docstring.lines[j]) # ""
               /\ \A m \in (i + 1)..j : ~IsHeaderShaped(d.node.docstring.lines[m])

BothViolations(d) ==
    {v \in ViolationsOf(d) : Contains(v, "cannot have both Returns and Yields")}

(* C18: a definition whose docstring has a Returns section and a Yields
   section, both with content, has a violation saying that it cannot have
   both Returns and Yields; a definition whose docstring has at most one of
   the two with content has no such violation. *)
C18_ReturnsYields ==
    \A d \in DocumentedDefinitions :
        (BothViolations(d) # {})
            <=> (PresentWithContent(d, "returns") /\ PresentWithContent(d, "yields"))

(* test_32: Returns and Yields both with a body; the violation is there *)
C18_Witness ==
    /\ FileChecked
    /\ config.sections = ReturnsYieldsSections
    /\ \E d \in DocumentedDefinitions :
           /\ d.node.docstring = DocReturnsAndYields
           /\ PresentWithContent(d, "returns")
           /\ PresentWithContent(d, "yields")
           /\ Cardinality(BothViolations(d)) = 1

-----------------------------------------------------------------------------
(* The properties of the header conventions.                                *)

(* the admonition headers of a docstring, as line numbers *)
AdmonitionLines(d) ==
    {i \in DOMAIN d.node.docstring.lines :
        /\ IsAdmonitionShaped(d.node.docstring.lines[i])
        /\ ~InFence(d.node.docstring.lines, i)
        /\ ~IsCodeLikeLabel(d.node.docstring.lines[i])}

(* the configured sections whose prefix and title the admonition line uses *)
SectionsWrittenAs(line) ==
    {n \in DOMAIN config.sections :
        /\ config.sections[n].admonition.is_str
        /\ config.sections[n].prefix = MatchAdmonition(line).prefix
        /\ Lower(config.sections[n].name) = KeyOf(line)}

(* the admonition headers with the prefix and the title of a configured
   section and a directive that is not the configured one *)
WrongAdmonitionLines(d) ==
    {i \in AdmonitionLines(d) :
        \E n \in SectionsWrittenAs(d.node.docstring.lines[i]) :
            Lower(MatchAdmonition(d.node.docstring.lines[i]).directive)
                # Lower(config.sections[n].admonition.text)}

IncorrectAdmonitionViolations(d) ==
    {v \in ViolationsOf(d) : Contains(v, "incorrect admonition")}

(* the violation names the title, the directive found and a directive
   configured for the line *)
NamesDirectives(v, line) ==
    /\ Contains(v, "'" \o MatchAdmonition(line).title \o "'")
    /\ Contains(v, "'" \o MatchAdmonition(line).directive \o "'")
    /\ \E n \in SectionsWrittenAs(line) :
           Contains(v, "'" \o config.sections[n].admonition.text \o "'")

(* C19: an admonition header with the prefix and the title of a configured
   section and a directive other than the configured one gets an "incorrect
   admonition" violation that names the directive found and the directive
   expected; every such violation is about such a header, so a header with
   the configured directive gets none. *)
C19_AdmonitionCorrectness ==
    \A d \in DocumentedDefinitions :
        /\ \A i \in WrongAdmonitionLines(d) :
               \E v \in IncorrectAdmonitionViolations(d) :
                   NamesDirectives(v, d.node.docstring.lines[i])
        /\ \A v \in IncorrectAdmonitionViolations(d) :
               \E i \in WrongAdmonitionLines(d) :
                   NamesDirectives(v, d.node.docstring.lines[i])

(* test_47: Details is written with abstract where info is configured,
   Summary with the configured note *)
C19_Witness ==
    /\ FileChecked
    /\ config.sections = AdmonitionSections
    /\ \E d \in DocumentedDefinitions :
           /\ d.node.docstring = DocWrongAdmonition
           /\ Cardinality(AdmonitionLines(d)) = 2
           /\ Cardinality(WrongAdmonitionLines(d)) = 1
           /\ IncorrectAdmonitionViolations(d)
                  = {"Section 'Details' has incorrect admonition 'abstract', expected 'info'"}

(* the admonition headers whose title ends with a colon *)
ColonTitleLines(d) ==
    {i \in AdmonitionLines(d) :
        EndsWith(MatchAdmonition(d.node.docstring.lines[i]).title, ":")}

(* the lines outside the fences that are a configured non-admonition
   section's name alone, without indentation and without the colon *)
BareLabelLines(d) ==
    {i \in DOMAIN d.node.docstring.lines :
        /\ ~InFence(d.node.docstring.lines, i)
        /\ ~IsFenceLine(d.node.docstring.lines[i])
        /\ d.node.docstring.lines[i] # ""
        /\ TakeWhileWord(d.node.docstring.lines[i]) = RStrip(d.node.docstring.lines[i])
        /\ \E n \in DOMAIN config.sections :
               /\ ~config.sections[n].admonition.is_str
               /\ Lower(config.sections[n].name) = Lower(RStrip(d.node.docstring.lines[i]))}

(* the violation of the given kind that names the header on line i *)
NamesHeader(v, kind, d, i) ==
    /\ Contains(v, kind)
    /\ Contains(v, "see: '" \o Strip(d.node.docstring.lines[i]) \o "'")

(* C20: each admonition header whose title ends with ":" gets one "should
   not end with ':'" violation, and each configured non-admonition section's
   name written alone at no indentation without ":" gets one "must end with
   ':'" violation; each violation names its header, and there are as many
   violations of each kind as there are such headers. *)
C20_ColonConvention ==
    \A d \in DocumentedDefinitions :
        /\ \A i \in ColonTitleLines(d) :
               \E v \in ViolationsOf(d) : NamesHeader(v, "should not end with ':'", d, i)
        /\ \A i \in BareLabelLines(d) :
               \E v \in ViolationsOf(d) : NamesHeader(v, "must end with ':'", d, i)
        /\ CountOf(MessageFor(d), "should not end with ':'")
               = Cardinality(ColonTitleLines(d))
        /\ CountOf(MessageFor(d), "must end with ':'") = Cardinality(BareLabelLines(d))

(* a docstring with one header of each faulty kind and one of each form
   written as it should be *)
C20_Witness ==
    /\ FileChecked
    /\ config.sections = DetailedSections
    /\ \E d \in DocumentedDefinitions :
           /\ d.node.docstring = DocMixedColons
           /\ Cardinality(ColonTitleLines(d)) = 1
           /\ Cardinality(BareLabelLines(d)) = 1
           /\ Cardinality(AdmonitionLines(d)) = 2
           /\ CountOf(MessageFor(d), "should not end with ':'") = 1
           /\ CountOf(MessageFor(d), "must end with ':'") = 1

-----------------------------------------------------------------------------
(* The properties of the entries of the list sections.                      *)

(* the non-blank lines of the bodies of the configured sections of the
   given type: the lines after a header that names such a section, up to
   the next header-shaped line *)
EntryLinesOf(d, type) ==
    {i \in DOMAIN d.node.docstring.lines :
        /\ Strip(d.node.docstring.lines[i]) # ""
        /\ \E h \in 1..(i - 1) :
               /\ IsHeaderShaped(d.node.docstring.lines[h])
               /\ \E n \in DOMAIN config.sections :
                      /\ config.sections[n].type = type
                      /\ Lower(config.sections[n].name) = KeyOf(d.node.docstring.lines[h])
               /\ \A m \in (h + 1)..i : ~IsHeaderShaped(d.node.docstring.lines[m])}

(* an entry `x: text`: one name before the colon and no parenthesized type *)
IsUntypedNameEntry(line) ==
    /\ Contains(line, ":")
    /\ Before(Strip(line), ":") # ""
    /\ TakeWhileWord(Strip(line)) = Before(Strip(line), ":")

(* an entry `x (type): text` *)
IsTypedNameEntry(line) ==
    /\ Contains(line, "):")
    /\ TakeWhileWord(Strip(line)) # ""
    /\ StartsWith(Drop(Strip(line), Len(TakeWhileWord(Strip(line)))), " (")

(* how often the message quotes the line as a line that lacks its type *)
QuotedAsUntyped(d, line) ==
    CountOf(MessageFor(d), "requires parenthesized types, see: '" \o Strip(line) \o "'")

HasSectionOfType(type) ==
    \E n \in DOMAIN config.sections : config.sections[n].type = type

(* C13: in a list_name_and_type section every entry `x: text`, with one
   name before the colon and no parenthesized type, has exactly one
   violation that holds "parenthesized types" and quotes the entry with its
   `x:`, the first entry of the section too; an entry `x (type): text` has
   none; and a configuration without a list_type section has no other
   violation of this kind. *)
C13_NameAndTypeEntries ==
    \A d \in DocumentedDefinitions :
        LET lines == d.node.docstring.lines
            entries == EntryLinesOf(d, "list_name_and_type")
            untyped == {i \in entries : IsUntypedNameEntry(lines[i])}
        IN  /\ \A i \in untyped :
                   /\ QuotedAsUntyped(d, lines[i])
                          = Cardinality({j \in untyped : lines[j] = lines[i]})
                   /\ \E v \in ViolationsOf(d) :
                          /\ Contains(v, "parenthesized types")
                          /\ Contains(v, "'" \o Before(Strip(lines[i]), ":") \o ":")
            /\ \A i \in entries :
                   IsTypedNameEntry(lines[i]) => QuotedAsUntyped(d, lines[i]) = 0
            /\ ~HasSectionOfType("list_type")
                   => CountOf(MessageFor(d), "parenthesized types") = Cardinality(untyped)

(* the specification's example: `x: no type` as the first entry of the
   required Parameters section and `x (int): has type` after it; the one
   violation of the definition is about the first *)
C13_Witness ==
    /\ FileChecked
    /\ config.sections = ParametersSections
    /\ \E d \in DocumentedDefinitions :
           /\ d.node.docstring
                  = EntryDoc("Parameters:", << "    x: no type", "    x (int): has type" >>)
           /\ EntryLinesOf(d, "list_name_and_type") = {4, 5}
           /\ ViolationsOf(d)
                  = {"Section 'Parameters' (type: 'list_name_and_type') requires parenthesized types, see: 'x: no type'"}

(* an entry `(Type): text` of a list_type section *)
IsTypedEntry(line) == StartsWith(Strip(line), "(") /\ Contains(line, "):")

(* the entries without a parenthesized type that come, in their section,
   after an entry with one at the same indentation *)
UntypedAfterTyped(d) ==
    {i \in EntryLinesOf(d, "list_type") :
        /\ ~IsTypedEntry(d.node.docstring.lines[i])
        /\ \E j \in EntryLinesOf(d, "list_type") :
               /\ j < i
               /\ IsTypedEntry(d.node.docstring.lines[j])
               /\ IndentOf(d.node.docstring.lines[j]) = IndentOf(d.node.docstring.lines[i])
               /\ \A m \in j..i : ~IsHeaderShaped(d.node.docstring.lines[m])}

(* C14: in a list_type section an entry without a parenthesized type that
   comes before every `(Type):` entry of the section has no violation, and
   an entry of the same shape at the same indentation after a `(Type):`
   entry has one, "requires parenthesized types", that quotes it: the
   message quotes a line as often as the line comes after such an entry. *)
C14_ListTypeOrder ==
    \A d \in DocumentedDefinitions :
        LET lines == d.node.docstring.lines
        IN  /\ \A i \in EntryLinesOf(d, "list_type") :
                   ~IsTypedEntry(lines[i])
                       => QuotedAsUntyped(d, lines[i])
                              = Cardinality({j \in UntypedAfterTyped(d) : lines[j] = lines[i]})
            /\ ~HasSectionOfType("list_name_and_type")
                   => CountOf(MessageFor(d), "requires parenthesized types")
                          = Cardinality(UntypedAfterTyped(d))

(* test_83 with the malformed entry before the valid one as well: the
   same line is tolerated on line 4 and flagged on line 6 *)
C14_Witness ==
    /\ FileChecked
    /\ config.sections = RaisesSections
    /\ \E d \in DocumentedDefinitions :
           /\ d.node.docstring
                  = EntryDoc("Raises:",
                             << "    BadFormatError: This is malformed - no parentheses.",
                                "    (ValueError): When something goes wrong.",
                                "    BadFormatError: This is malformed - no parentheses." >>)
           /\ UntypedAfterTyped(d) = {6}
           /\ CountOf(MessageFor(d), "requires parenthesized types") = 1
           /\ ViolationsOf(d)
                  = {"Section 'raises' (type: 'list_type') requires parenthesized types, see: 'BadFormatError: This is malformed - no parentheses.'"}

-----------------------------------------------------------------------------
(* The properties of the parameter types.                                   *)

(* the parameters of the signature: self and cls are none *)
SignatureOf(d) ==
    {d.node.args[k] : k \in {j \in DOMAIN d.node.args : d.node.args[j].arg \notin {"self", "cls"}}}

(* the types the Params section of the docstring gives the name: the text
   in the parentheses of its entries *)
DocTypes(d, name) ==
    {Before(Drop(Strip(d.node.docstring.lines[i]), Len(name) + 2), ")") :
        i \in {j \in DOMAIN d.node.docstring.lines :
                  /\ StartsWith(Strip(d.node.docstring.lines[j]), name \o " (")
                  /\ Contains(d.node.docstring.lines[j], "):")
                  /\ \E h \in 1..(j - 1) :
                         /\ IsHeaderShaped(d.node.docstring.lines[h])
                         /\ KeyOf(d.node.docstring.lines[h]) = "params"
                         /\ \A m \in (h + 1)..j :
                                ~IsHeaderShaped(d.node.docstring.lines[m])}}

(* the violations of the parameter type check that are about the name *)
TypeViolationsOf(d, name) ==
    {v \in ViolationsOf(d) :
        /\ StartsWith(v, name \o " ")
        /\ Contains(v, " type mismatch") \/ Contains(v, " has type ")}

TypedDefinitions == {d \in DocumentedDefinitions : d.kind # "class"}

(* C15: the parameter types are compared only where validate_param_types
   is set: where it is not, no definition has a violation of this check;
   where it is, a parameter with an annotation and a type in the docstring
   has a "<name> type mismatch" violation exactly when the two differ once
   case and outer blanks are set aside, so that str and Str match. *)
C15_TypeMismatch ==
    \A d \in TypedDefinitions : \A a \in SignatureOf(d) :
        IF ~config.global_config.validate_param_types
        THEN TypeViolationsOf(d, a.arg) = {}
        ELSE a.annotation # "" =>
                 \A t \in DocTypes(d, a.arg) :
                     (\E v \in ViolationsOf(d) : StartsWith(v, a.arg \o " type mismatch"))
                         <=> Lower(Strip(a.annotation)) # Lower(Strip(t))

(* example_function(name: str, age: int) documented as name (Str) and
   age (str): name matches, age does not *)
C15_Witness ==
    /\ FileChecked
    /\ config.global_config.validate_param_types
    /\ config.sections = ParamsSections
    /\ \E d \in TypedDefinitions :
           /\ SignatureOf(d) = {Arg("name", "str"), Arg("age", "int")}
           /\ DocTypes(d, "name") = {"Str"}
           /\ DocTypes(d, "age") = {"str"}
           /\ ViolationsOf(d)
                  = {"age type mismatch: signature has 'int' but docstring has 'str'"}

(* C16: where validate_param_types is set, a parameter other than self and
   cls with an annotation and no type in the docstring is reported as
   "<name> has type annotation '<sig>' in signature but no type in
   docstring", and has no mismatch violation; nothing is reported of self
   and cls. *)
C16_MissingDocstringType ==
    config.global_config.validate_param_types =>
        \A d \in TypedDefinitions :
            /\ \A a \in SignatureOf(d) :
                   a.annotation # "" /\ DocTypes(d, a.arg) = {} =>
                       TypeViolationsOf(d, a.arg)
                           = {a.arg \o " has type annotation '" \o a.annotation
                                  \o "' in signature but no type in docstring"}
            /\ \A name \in {"self", "cls"} : TypeViolationsOf(d, name) = {}

(* a method(self, name: str, age: int) whose docstring documents name
   only: age is reported, self is not *)
C16_Witness ==
    /\ FileChecked
    /\ config.global_config.validate_param_types
    /\ config.sections = ParamsSections
    /\ \E d \in TypedDefinitions :
           /\ d.kind = "method"
           /\ SignatureOf(d) = {Arg("name", "str"), Arg("age", "int")}
           /\ DocTypes(d, "name") = {"str"}
           /\ DocTypes(d, "age") = {}
           /\ ViolationsOf(d)
                  = {"age has type annotation 'int' in signature but no type in docstring"}

(* C17, as claimed: the check reports nothing of a parameter without an
   annotation, be it documented with a type or not. *)
C17_AsClaimed ==
    \A d \in TypedDefinitions : \A a \in SignatureOf(d) :
        a.annotation = "" => TypeViolationsOf(d, a.arg) = {}

(* C17: where validate_param_types is set, a parameter without an
   annotation that the docstring gives no type has no violation of the
   check, and one that the docstring gives a type has exactly one, which
   names it and is no mismatch. *)
C17_UnannotatedParameters ==
    config.global_config.validate_param_types =>
        \A d \in TypedDefinitions : \A a \in SignatureOf(d) :
            a.annotation = "" =>
                /\ DocTypes(d, a.arg) = {} => TypeViolationsOf(d, a.arg) = {}
                /\ DocTypes(d, a.arg) # {} =>
                       /\ Cardinality(TypeViolationsOf(d, a.arg)) = 1
                       /\ \A v \in TypeViolationsOf(d, a.arg) :
                              ~Contains(v, " type mismatch")

(* test_param_missing_type_annotation with age left out of both: name has
   no annotation and is documented as str, age has neither; the one error
   of the definition is about name *)
C17_Witness ==
    /\ FileChecked
    /\ config.global_config.validate_param_types
    /\ config.sections = ParamsSections
    /\ \E d \in TypedDefinitions :
           /\ SignatureOf(d) = {Arg("name", ""), Arg("age", "")}
           /\ DocTypes(d, "name") = {"str"}
           /\ DocTypes(d, "age") = {}
           /\ Len(ErrorsFor(d)) = 1
           /\ TypeViolationsOf(d, "age") = {}
           /\ Cardinality(TypeViolationsOf(d, "name")) = 1



(* the structured-form headers of a configured section whose label is not
   the title-cased name of that section *)
WrongCaseLines(d) ==
    {i \in OrdinaryLabelLines(d.node.docstring.lines) :
        /\ IsStructuredShaped(d.node.docstring.lines[i])
        /\ \E n \in DOMAIN config.sections :
               /\ Lower(config.sections[n].name) = KeyOf(d.node.docstring.lines[i])
               /\ LabelOf(d.node.docstring.lines[i]) # Title(config.sections[n].name)}

(* the structured-form headers written as the title-cased name of a
   configured section *)
TitleCaseLines(d) ==
    {i \in OrdinaryLabelLines(d.node.docstring.lines) :
        /\ IsStructuredShaped(d.node.docstring.lines[i])
        /\ \E n \in DOMAIN config.sections :
               LabelOf(d.node.docstring.lines[i]) = Title(config.sections[n].name)}

(* C21: each structured-form header of a configured section whose label is
   not exactly the title-cased name of the section gets its own "must be in
   title case" violation naming the label as written; a header with the
   exact title-cased label gets none, so that there are as many such
   violations as there are offending headers. *)
C21_TitleCase ==
    \A d \in DocumentedDefinitions :
        /\ \A i \in WrongCaseLines(d) :
               \E v \in ViolationsOf(d) :
                   /\ Contains(v, "must be in title case")
                   /\ Contains(v, "'" \o LabelOf(d.node.docstring.lines[i]) \o "'")
        /\ \A i \in TitleCaseLines(d) :
               \A v \in ViolationsOf(d) :
                   Contains(v, "must be in title case") =>
                       ~Contains(v, "'" \o LabelOf(d.node.docstring.lines[i]) \o "'")
        /\ CountOf(MessageFor(d), "must be in title case")
               = Cardinality(WrongCaseLines(d))

(* test_57: three offending headers and three violations *)
C21_Witness ==
    /\ FileChecked
    /\ config.sections = ColonSections
    /\ \E d \in DocumentedDefinitions :
           /\ d.node.docstring = DocWrongCase
           /\ Cardinality(WrongCaseLines(d)) = 3
           /\ CountOf(MessageFor(d), "must be in title case") = 3


(* the definitions whose docstring is one non-empty line *)
OneLineDefinitions ==
    {d \in DocumentedDefinitions :
        /\ Len(d.node.docstring.lines) = 1
        /\ Strip(d.node.docstring.lines[1]) # ""}

(* a line that is no header of either form and no section name on its own *)
IsPlainLine(line) ==
    /\ ~IsHeaderShaped(line)
    /\ ~IsConfiguredName(Lower(Strip(line)))

(* C22: with the summary as the only configured section (free text,
   required, no admonition), every definition whose docstring is one
   non-empty line that is not itself a header passes with zero violations;
   a one-line docstring that is the header of a section outside the
   configuration is reported when undefined sections are not allowed. *)
C22_OneLineSummary ==
    (FileChecked /\ config.sections = SummaryOnlySections) =>
        \A d \in OneLineDefinitions :
            /\ IsPlainLine(d.node.docstring.lines[1]) => ErrorsFor(d) = << >>
            /\ (/\ IsStructuredShaped(d.node.docstring.lines[1])
                /\ ~IsConfiguredName(KeyOf(d.node.docstring.lines[1]))
                /\ ~config.global_config.allow_undefined_sections)
                   => ErrorsFor(d) # << >>

(* test_37: the one-line docstring of a function passes *)
C22_Witness ==
    /\ FileChecked
    /\ config.sections = SummaryOnlySections
    /\ config.global_config.require_docstrings
    /\ \E d \in OneLineDefinitions :
           /\ d.kind = "function"
           /\ d.node.docstring.lines
                  = << "This is a simple docstring that should be accepted as summary." >>
           /\ ErrorsFor(d) = << >>

(* C22 as the specification words it: zero violations whatever the text of
   the line is *)
C22_AsClaimed ==
    (FileChecked /\ config.sections = SummaryOnlySections) =>
        \A d \in OneLineDefinitions : ErrorsFor(d) = << >>



-----------------------------------------------------------------------------
(* The properties of the lines a list section skips.                        *)

(* the number of words before the first colon of the line *)
WordsBeforeColon(line) == Len(Words(Before(Strip(line), ":")))

(* the lines with a parenthesized type that come before line i in its
   section *)
TypedBefore(d, i, type) ==
    {j \in 1..(i - 1) :
        /\ \A m \in j..i : ~IsHeaderShaped(d.node.docstring.lines[m])
        /\ IF type = "list_type" THEN IsTypedEntry(d.node.docstring.lines[j])
           ELSE Contains(d.node.docstring.lines[j], "):")}

(* line i is indented deeper than the last line with a parenthesized type
   before it in its section *)
IsDeeperLine(d, i, type) ==
    \E j \in TypedBefore(d, i, type) :
        /\ \A k \in TypedBefore(d, i, type) : k <= j
        /\ IndentOf(d.node.docstring.lines[j]) < IndentOf(d.node.docstring.lines[i])

(* the lines of list_name_and_type sections with a colon, no parenthesized
   type and more than n words before the colon *)
WordyLines(d, n) ==
    {i \in EntryLinesOf(d, "list_name_and_type") :
        /\ Contains(d.node.docstring.lines[i], ":")
        /\ ~Contains(d.node.docstring.lines[i], "):")
        /\ WordsBeforeColon(d.node.docstring.lines[i]) > n}

(* C25: in a list_name_and_type section a line with more than two words
   before its colon is taken for wrapped prose and skipped, at the
   indentation of the entries too: no "requires parenthesized types"
   violation quotes it. *)
C25_ManyWords ==
    \A d \in DocumentedDefinitions :
        \A i \in WordyLines(d, 2) : QuotedAsUntyped(d, d.node.docstring.lines[i]) = 0

(* test_87: the line of six words before its colon stands at the
   indentation of the entry, and the definition has no error *)
C25_Witness ==
    /\ FileChecked
    /\ config.sections = ColonSections
    /\ \E d \in DocumentedDefinitions :
           /\ d.node.docstring = DocSameLevelManyWords
           /\ 6 \in WordyLines(d, 2)
           /\ IndentOf(d.node.docstring.lines[6]) = IndentOf(d.node.docstring.lines[4])
           /\ ErrorsFor(d) = << >>

(* C25 as the specification words it: skipped with multiple words, two
   included, before the colon *)
C25_AsClaimed ==
    \A d \in DocumentedDefinitions :
        \A i \in WordyLines(d, 1) : QuotedAsUntyped(d, d.node.docstring.lines[i]) = 0

(* the entries written `name type:` : two words before the colon, no
   parenthesis, no prose word, not deeper than an entry with a type *)
TwoWordEntries(d) ==
    {i \in WordyLines(d, 1) \ WordyLines(d, 2) :
        /\ ~Contains(d.node.docstring.lines[i], "(")
        /\ ~HasFillerWord(d.node.docstring.lines[i])
        /\ ~IsDeeperLine(d, i, "list_name_and_type")}

(* C26: in list_name_and_type sections each entry written `name type:`
   (two words before the colon, no parentheses) has its own "requires
   parenthesized types" violation that quotes it, so that the message holds
   at least as many such violations as the docstring has such entries,
   whatever sections they are in. *)
C26_TwoWordEntries ==
    \A d \in DocumentedDefinitions :
        /\ \A i \in TwoWordEntries(d) :
               QuotedAsUntyped(d, d.node.docstring.lines[i])
                   = Cardinality({j \in TwoWordEntries(d) :
                                     d.node.docstring.lines[j] = d.node.docstring.lines[i]})
        /\ CountOf(MessageFor(d), "requires parenthesized types")
               >= Cardinality(TwoWordEntries(d))

(* test_59: two such entries under Params and one under Returns, three
   violations *)
C26_Witness ==
    /\ FileChecked
    /\ config.sections = SimpleSections
    /\ \E d \in DocumentedDefinitions :
           /\ d.node.docstring = DocTwoWordEntries
           /\ TwoWordEntries(d) = {5, 7, 11}
           /\ CountOf(MessageFor(d), "requires parenthesized types") = 3

ListSectionTypes == {"list_type", "list_name_and_type"}

(* the entries without a parenthesized type that are to be flagged: in a
   list_name_and_type section a name and a colon, in a list_type section
   any line after an entry with a type at its indentation; no prose word
   and no deeper indentation *)
PlainUntypedEntries(d, type) ==
    {i \in EntryLinesOf(d, type) :
        /\ ~HasFillerWord(d.node.docstring.lines[i])
        /\ ~IsDeeperLine(d, i, type)
        /\ IF type = "list_type" THEN i \in UntypedAfterTyped(d)
           ELSE IsUntypedNameEntry(d.node.docstring.lines[i])}

(* C27: in list_type and list_name_and_type sections a line indented
   deeper than the entry with a type before it, with a colon or without, and
   a line with a prose word (default, output, format, show, example) before
   its colon are skipped: no violation quotes them; an entry without
   parentheses and without a prose word at the indentation of the entries,
   such lines before it or not, is still flagged. *)
C27_SkippedLines ==
    \A d \in DocumentedDefinitions :
        \A type \in ListSectionTypes :
            /\ \A i \in EntryLinesOf(d, type) :
                   (IsDeeperLine(d, i, type) \/ HasFillerWord(d.node.docstring.lines[i]))
                       => QuotedAsUntyped(d, d.node.docstring.lines[i]) = 0
            /\ \A i \in PlainUntypedEntries(d, type) :
                   QuotedAsUntyped(d, d.node.docstring.lines[i]) >= 1

(* test_76: three lines with prose words after the first entry are
   skipped, the entry without its type after them is the one violation *)
C27_Witness ==
    /\ FileChecked
    /\ config.sections = ColonSections
    /\ \E d \in DocumentedDefinitions :
           /\ d.node.docstring = DocDescriptionWords
           /\ \A i \in 6..8 : HasFillerWord(d.node.docstring.lines[i])
           /\ PlainUntypedEntries(d, "list_name_and_type") = {9}
           /\ ViolationsOf(d)
                  = {"Section 'params' (type: 'list_name_and_type') requires parenthesized types, see: 'param2: Missing parenthesized type (should trigger error)'"}



-----------------------------------------------------------------------------
(* The properties of the types the docstring gives the parameters.          *)

(* the parameters the docstring gives a type and the signature no
   annotation *)
DocumentedUnannotated(d) ==
    {a \in SignatureOf(d) : a.annotation = "" /\ DocTypes(d, a.arg) # {}}

(* every parameter but a has an annotation and, in the docstring, one type
   that matches it *)
OthersMatch(d, a) ==
    \A b \in SignatureOf(d) \ {a} :
        /\ b.annotation # ""
        /\ \A t \in DocTypes(d, b.arg) : Lower(Strip(t)) = Lower(Strip(b.annotation))
        /\ DocTypes(d, b.arg) # {}

(* C28: where validate_param_types is set, a function or method with a
   parameter that the docstring gives a type and the signature no
   annotation has exactly one error, whose message names the parameter;
   under the Params-only sections, with every other parameter matching,
   that error holds one violation. *)
C28_MissingAnnotation ==
    (FileChecked /\ config.global_config.validate_param_types) =>
        \A d \in TypedDefinitions : \A a \in DocumentedUnannotated(d) :
            /\ Len(ErrorsFor(d)) = 1
            /\ \E v \in TypeViolationsOf(d, a.arg) : Contains(v, a.arg)
            /\ (config.sections = ParamsSections /\ OthersMatch(d, a))
                   => Cardinality(ViolationsOf(d)) = 1

(* test_param_missing_type_annotation: example_function(name, age: int)
   with name (str) and age (int) documented *)
C28_Witness ==
    /\ FileChecked
    /\ config.global_config.validate_param_types
    /\ config.sections = ParamsSections
    /\ \E d \in TypedDefinitions :
           /\ d.kind = "function"
           /\ d.node.args = << Arg("name", ""), Arg("age", "int") >>
           /\ DocTypes(d, "name") = {"str"}
           /\ DocTypes(d, "age") = {"int"}
           /\ Len(ErrorsFor(d)) = 1
           /\ \E v \in ViolationsOf(d) : StartsWith(v, "name ")
           /\ Cardinality(ViolationsOf(d)) = 1

(* the word a line starts with *)
NameOn(line) == TakeWhileWord(LStrip(line))

(* the pairs of a name and a type that the entries of the Params section
   give, by the lines of the docstring *)
DocTypePairs(d) ==
    UNION {{<< NameOn(d.node.docstring.lines[i]), t >> :
               t \in DocTypes(d, NameOn(d.node.docstring.lines[i]))} :
              i \in DOMAIN d.node.docstring.lines}

(* docstring_types as the checker builds it for the definition *)
ExtractedTypes(d) ==
    LET Pairs(types) == {<< types[k].name, types[k].type >> : k \in DOMAIN types}
    IN  Pairs(_extract_param_types_from_docstring(d.node.docstring.lines,
                                                  Headers(d.node.docstring.lines)))

HasParamsHeader(d) ==
    \E i \in DOMAIN d.node.docstring.lines :
        /\ IsHeaderShaped(d.node.docstring.lines[i])
        /\ KeyOf(d.node.docstring.lines[i]) = "params"

(* C29: docstring_types holds the entries of the Params section and no
   others: the scan stops at the next header, so that an entry of a section
   after it never enters the map, and a docstring without a Params section
   gives the empty map. *)
C29_DocstringTypes ==
    \A d \in DocumentedDefinitions :
        /\ ExtractedTypes(d) = DocTypePairs(d)
        /\ ~HasParamsHeader(d) => ExtractedTypes(d) = {}

(* test_direct_extract_param_types_with_section_break with y (str) as an
   entry of Returns: docstring_types holds x alone, and y, annotated int,
   is reported as having no type in the docstring *)
C29_Witness ==
    /\ FileChecked
    /\ config.global_config.validate_param_types
    /\ config.sections = ParamsReturnsSections
    /\ \E d \in TypedDefinitions :
           /\ d.node.docstring = DocEntryAfterBreak
           /\ ExtractedTypes(d) = {<< "x", "int" >>}
           /\ ViolationsOf(d)
                  = {"y has type annotation 'int' in signature but no type in docstring"}



-----------------------------------------------------------------------------
(* The properties of the kinds of definition.                               *)

(* the item types of the errors of the call, in their order *)
ErrorItemTypes == [k \in DOMAIN outcome.errors |-> outcome.errors[k].item_type]

(* C30: a required params section is not demanded of a function or method
   that has no parameter other than self: no such definition has "Missing
   required section: Params", and with a plain one-line docstring under the
   summary/params/returns sections it has no error; a class without a
   docstring has no error; and with require_docstrings set the file of one
   function and one class with one method, none documented, yields exactly
   two errors, of item types function and method. *)
C30_DefinitionKinds ==
    FileChecked =>
        /\ \A d \in DocumentedDefinitions :
               (d.kind \in {"function", "method"} /\ ~HasParameters(d)) =>
                   /\ "Missing required section: Params" \notin ViolationsOf(d)
                   /\ (config.sections = SimpleSections /\ d \in OneLineDefinitions
                           /\ IsPlainLine(d.node.docstring.lines[1]))
                          => ErrorsFor(d) = << >>
        /\ \A d \in CheckedDefinitions :
               (d.kind = "class" /\ d.node.docstring.none) => ErrorsFor(d) = << >>
        /\ (fs[outcome.path].tree = MissingDocstringsTree
                /\ config.global_config.require_docstrings)
               => ErrorItemTypes = << "function", "method" >>

(* test_01: the function and the method (self alone) have one-line
   docstrings, params is required, and the file has no error *)
C30_Witness ==
    /\ FileChecked
    /\ config.sections = SimpleSections
    /\ config.global_config.require_docstrings
    /\ fs[outcome.path].tree = GoodDocstringsTree
    /\ {d.kind : d \in OneLineDefinitions} = {"function", "class", "method"}
    /\ outcome.errors = << >>



-----------------------------------------------------------------------------
(* The properties of the construction of sections.                          *)

(* admonition and prefix go together: neither, or a directive and a prefix *)
IsConsistentSection(section) ==
    \/ /\ ~section.admonition.is_str
       /\ ~section.admonition.bool
       /\ section.prefix = ""
    \/ /\ section.admonition.is_str
       /\ section.admonition.text # ""
       /\ section.prefix # ""

(* the constructor has been called with a section type that exists *)
Constructing ==
    outcome.op = "SectionConfig" /\ outcome.section.type \in SectionTypes

(* C23: the constructor raises ValueError for admonition=True, for
   admonition=False with a prefix and for a directive without a prefix,
   and makes the section otherwise; so every section that exists has
   either no admonition and no prefix or a directive and a prefix. *)
C23_SectionInvariants ==
    /\ \A n \in DOMAIN config.sections : IsConsistentSection(config.sections[n])
    /\ Constructing =>
           /\ outcome.section.admonition = AdmonitionTrue
                  => /\ outcome.raised = "ValueError"
                     /\ Contains(outcome.message, "admonition cannot be True")
           /\ (outcome.section.admonition = NoAdmonition /\ outcome.section.prefix # "")
                  => /\ outcome.raised = "ValueError"
                     /\ Contains(outcome.message,
                                 "when admonition=False, prefix cannot be provided")
           /\ (outcome.section.admonition.is_str /\ outcome.section.prefix = "")
                  => /\ outcome.raised = "ValueError"
                     /\ Contains(outcome.message,
                                 "when admonition is a string, prefix must be provided")
           /\ IsConsistentSection(outcome.section)
                  => /\ outcome.raised = ""
                     /\ config.sections[Len(config.sections)] = outcome.section

(* test_54 then test_53: a section without admonition, then the call with
   a directive and no prefix, which raises and leaves the list as it was *)
C23_Witness ==
    /\ Constructing
    /\ Len(config.sections) = 1
    /\ config.sections[1].admonition = NoAdmonition
    /\ outcome.section.admonition = Admonition("note")
    /\ outcome.section.prefix = ""
    /\ outcome.raised = "ValueError"



-----------------------------------------------------------------------------
(* The properties of repeated calls.                                        *)

(* what the last call gave back: the exception, its message, the errors *)
ResultOfCall ==
    [raised |-> outcome.raised, message |-> outcome.message, errors |-> outcome.errors]

(* a call of check_file follows a call of check_file on the same path,
   the checker and the files being what they were *)
RepeatedCheckFile ==
    /\ outcome.op = "check_file"
    /\ outcome'.op = "check_file"
    /\ outcome'.path = outcome.path
    /\ config' = config
    /\ fs' = fs

(* C24: what check_file gives back is determined by the path, the content
   of the files and the configuration of the checker alone, whatever calls
   came before; so a call that follows a call on the same path, the files
   and the checker unchanged, gives back the same exception or the same
   list of errors: same records, same order, same messages. *)
C24_Idempotence ==
    /\ [](outcome.op = "check_file" => ResultOfCall = check_file(config, fs, outcome.path))
    /\ [][RepeatedCheckFile => outcome' = outcome]_vars

(* check_file has given back one error for the undocumented module of the
   project, after whatever calls *)
C24_Witness ==
    /\ outcome.op = "check_file"
    /\ outcome.path = "pkg/bad.py"
    /\ config.global_config.require_docstrings
    /\ outcome.raised = ""
    /\ Len(outcome.errors) = 1
    /\ ResultOfCall = check_file(config, fs, "pkg/bad.py")


=============================================================================
